---- MODULE Spec2Model ----
(***************************************************************************)
(* Training Catalogue Manager: the ingestion and reconciliation pipeline   *)
(* (db.py, services/container_service.py, services/sharepoint_service.py)  *)
(* and the batch save of the Scrubbing page (tcm_app/views.py).            *)
(*                                                                         *)
(* The resources table is a function from resource_key to a row, a row is  *)
(* a function from column name to value.  A transaction() block is a set   *)
(* of uncommitted row versions (txn) laid over the committed table (db);   *)
(* a statement run through execute() without conn= commits on its own.     *)
(***************************************************************************)
EXTENDS Integers, Sequences, FiniteSets, TLC

VARIABLES
    db,          \* committed rows of table resources: key -> row
    txn,         \* uncommitted row versions of the open transaction()
    checkedOut,  \* connections borrowed from the pool and not returned
    clock,       \* wall clock: last value handed out by datetime.now()
    tree,        \* the folder on disk: key -> contents_count | Absent
    fr,          \* import_from_folder in progress
    zr,          \* upsert_resource in progress (import_from_zip)
    hist,        \* history of the import runs (for the claims only)
    sv,          \* save_scrub_batch_view in progress
    sp,          \* _traverse_folder call and its outcome
    fn           \* a call of a pure function: arguments and result

vars == <<db, txn, checkedOut, clock, tree, fr, zr, hist, sv, sp, fn>>

\* ------------------------------------------------------------------ bounds
NumKeys == 2
MaxClock == 3
MaxUserWrites == 1

Keys == 1..NumKeys

\* ------------------------------------------------------------- the schema
Null == "NULL"   \* NULL of a text column
NullTime == -1   \* NULL of a timestamp column
NullKey == 0     \* None as a resource_key
Absent == -1     \* the file is not in the tree

\* CREATE TABLE resources: the columns written by the upsert
UPSERT_COLUMNS ==
    <<"resource_key", "drive_item_id", "relative_path", "bucket",
      "primary_department", "sub_department", "training_type", "resource_type",
      "display_name", "web_url", "resource_count", "valid_link_count",
      "contents_count", "is_placeholder", "first_seen", "last_seen", "source",
      "is_archived">>

UpsertColumnSet == {UPSERT_COLUMNS[i] : i \in 1..Len(UPSERT_COLUMNS)}

\* the columns only the users' decisions write
ScrubColumns ==
    {"scrub_status", "scrub_notes", "scrub_owner", "scrub_updated",
     "scrub_reasons", "audience"}

InvestColumns ==
    {"invest_decision", "invest_owner", "invest_effort", "invest_notes",
     "invest_updated"}

DecisionColumns == ScrubColumns \cup InvestColumns \cup {"sales_stage"}

Columns == UpsertColumnSet \cup DecisionColumns \cup {"approved_for_investment"}

\* column defaults of CREATE TABLE for the columns an INSERT leaves out
ColumnDefault(c) ==
    CASE c = "scrub_status" -> "not_reviewed"
      [] c = "approved_for_investment" -> 0
      [] c \in {"scrub_updated", "invest_updated"} -> NullTime
      [] OTHER -> Null

\* the SET list of the UPDATE in upsert_resource
UpsertResource_SetColumns ==
    {"relative_path", "bucket", "primary_department", "sub_department",
     "training_type", "display_name", "web_url", "resource_count",
     "valid_link_count", "contents_count", "is_placeholder", "last_seen",
     "source", "drive_item_id", "is_archived"}

\* a DO UPDATE SET list that also takes first_seen from EXCLUDED
UPSERT_SQL_SetColumns_FirstSeen ==
    {"relative_path", "bucket", "primary_department", "sub_department",
     "training_type", "display_name", "web_url", "resource_count",
     "valid_link_count", "contents_count", "is_placeholder", "first_seen",
     "last_seen", "source", "drive_item_id", "is_archived"}

\* the DO UPDATE SET list of _UPSERT_SQL
UPSERT_SQL_SetColumns ==
    {"relative_path", "bucket", "primary_department", "sub_department",
     "training_type", "display_name", "web_url", "resource_count",
     "valid_link_count", "contents_count", "is_placeholder", "last_seen",
     "source", "drive_item_id", "is_archived"}

\* ------------------------------------------------------ rows of an import
\* The row a walk of the tree builds for the file behind key k: every
\* metadata column is a function of the file, contents_count of its content.
FileRow(k, cc, started, src) ==
    [c \in UpsertColumnSet |->
        CASE c = "resource_key" -> k
          [] c = "drive_item_id" -> Null
          [] c = "relative_path" -> "hr/_general/01_onboarding/05_job aids/f" \o ToString(k)
          [] c = "bucket" -> "onboarding"
          [] c = "primary_department" -> "HR"
          [] c = "sub_department" -> "_General"
          [] c = "training_type" -> "job_aids"
          [] c = "resource_type" -> "file"
          [] c = "display_name" -> "f" \o ToString(k)
          [] c = "web_url" -> Null
          [] c = "resource_count" -> 1
          [] c = "valid_link_count" -> 0
          [] c = "contents_count" -> cc
          [] c = "is_placeholder" -> 0
          [] c = "first_seen" -> started
          [] c = "last_seen" -> started
          [] c = "source" -> src
          [] c = "is_archived" -> 0]

\* INSERT of the given values; the other columns take their defaults
InsertRow(values) ==
    [c \in Columns |->
        IF c \in DOMAIN values THEN values[c] ELSE ColumnDefault(c)]

\* UPDATE ... SET of the columns in setCols from the given values
UpdateRow(old, values, setCols) ==
    [c \in Columns |->
        IF c \in setCols /\ c \in DOMAIN values THEN values[c] ELSE old[c]]

\* the table as the open transaction sees it
Overlay(table, pending) ==
    [k \in DOMAIN table \cup DOMAIN pending |->
        IF k \in DOMAIN pending THEN pending[k] ELSE table[k]]

EmptyTable == [k \in {} |-> 0]

\* ----------------------------------------------------------------- db.py
\* upsert_resource, the row exists: UPDATE ... SET <metadata>, is_archived = 0
UpsertResource_Update(old, values) ==
    UpdateRow(old, [values EXCEPT !["is_archived"] = 0],
              UpsertResource_SetColumns)

\* upsert_resource, the row does not exist: INSERT of the 18 columns
UpsertResource_Insert(values) ==
    InsertRow([values EXCEPT !["is_archived"] = 0])

\* an upsert that replaces the whole row (INSERT OR REPLACE)
UPSERT_SQL_Replace(view, r) ==
    LET k == r["resource_key"] IN
    [j \in DOMAIN view \cup {k} |-> IF j = k THEN InsertRow(r) ELSE view[j]]

\* one VALUES tuple of _UPSERT_SQL applied to the table the statement sees
UPSERT_SQL(view, r) ==
    LET k == r["resource_key"] IN
    IF k \in DOMAIN view
    THEN [view EXCEPT ![k] =
            UpdateRow(view[k], [r EXCEPT !["is_archived"] = 0],
                      UPSERT_SQL_SetColumns)]
    ELSE [j \in DOMAIN view \cup {k} |->
            IF j = k THEN InsertRow(r) ELSE view[j]]

\* _REQUIRED_KEYS: a row that lacks one of them makes the batch raise
REQUIRED_KEYS == {"resource_key", "relative_path", "resource_type"}

RowIsComplete(r) ==
    \A c \in REQUIRED_KEYS :
        /\ c \in DOMAIN r
        /\ r[c] # (IF c = "resource_key" THEN NullKey ELSE Null)

\* INSERT ... ON CONFLICT DO UPDATE refuses a statement that names one key
\* twice ("cannot affect row a second time")
HasDuplicateKeys(rows) ==
    \E i, j \in 1..Len(rows) :
        i # j /\ rows[i]["resource_key"] = rows[j]["resource_key"]

RECURSIVE ApplyUpserts(_, _, _)
ApplyUpserts(view, rows, i) ==
    IF i > Len(rows) THEN view
    ELSE ApplyUpserts(UPSERT_SQL(view, rows[i]), rows, i + 1)

\* batch_upsert_resources: does the call raise, and the table it leaves
BatchUpsertRaises(rows) ==
    \/ \E i \in 1..Len(rows) : ~RowIsComplete(rows[i])
    \/ HasDuplicateKeys(rows)

batch_upsert_resources(view, rows) == ApplyUpserts(view, rows, 1)

\* a WHERE clause that compares last_seen with <= instead of <
IsStale_Inclusive(row, sync_started_at) ==
    /\ row["is_archived"] = 0
    /\ \/ row["last_seen"] = NullTime
       \/ row["last_seen"] <= sync_started_at

\* archive_stale_resources: the rows its WHERE clause selects
IsStale(row, sync_started_at) ==
    /\ row["is_archived"] = 0
    /\ \/ row["last_seen"] = NullTime
       \/ row["last_seen"] < sync_started_at

StaleKeys(view, sync_started_at) ==
    {k \in DOMAIN view : IsStale(view[k], sync_started_at)}

\* an archival that leaves the rows of import_from_zip alone
archive_stale_resources_NotZip(view, sync_started_at) ==
    [k \in DOMAIN view |->
        IF IsStale(view[k], sync_started_at) /\ view[k]["source"] # "zip"
        THEN [view[k] EXCEPT !["is_archived"] = 1]
        ELSE view[k]]

\* archive_stale_resources: the table after its UPDATE
archive_stale_resources(view, sync_started_at) ==
    [k \in DOMAIN view |->
        IF IsStale(view[k], sync_started_at)
        THEN [view[k] EXCEPT !["is_archived"] = 1]
        ELSE view[k]]

\* transaction(): what the table holds after the block's commit / rollback
TransactionCommit(table, pending) == Overlay(table, pending)

\* an except branch that commits instead of rolling back
TransactionRollback_Commits(table, pending) == Overlay(table, pending)

TransactionRollback(table, pending) == table

\* update_resource_scrub: one UPDATE, committed by execute()
update_resource_scrub(row, decision, owner, notes, audience, now) ==
    LET r1 == [row EXCEPT !["scrub_status"] = decision,
                          !["scrub_owner"] = owner,
                          !["scrub_notes"] = notes,
                          !["scrub_reasons"] = Null,
                          !["scrub_updated"] = now]
    IN IF audience # Null THEN [r1 EXCEPT !["audience"] = audience] ELSE r1

\* update_sales_stage: one UPDATE, committed by execute()
update_sales_stage(row, stage) == [row EXCEPT !["sales_stage"] = stage]

\* update_resource_invest: one UPDATE, committed by execute()
update_resource_invest(row, decision, owner, effort, notes, now) ==
    [row EXCEPT !["invest_decision"] = decision,
                !["invest_owner"] = owner,
                !["invest_effort"] = effort,
                !["invest_notes"] = notes,
                !["invest_updated"] = now]

\* --------------------------------------------- services/container_service
RECURSIVE WalkFrom(_, _, _)
WalkFrom(t, k, started) ==
    IF k > NumKeys THEN <<>>
    ELSE IF t[k] = Absent THEN WalkFrom(t, k + 1, started)
    ELSE <<FileRow(k, t[k], started, "folder")>> \o WalkFrom(t, k + 1, started)

\* Phase 1 of import_from_folder: the rows the walk of the tree collects
WalkRows(t, started) == WalkFrom(t, 1, started)

RowKeys(rows) == {rows[i]["resource_key"] : i \in 1..Len(rows)}

\* =========================================================================
\* The import and reconciliation state machine
\* =========================================================================
FrIdle(outcome) ==
    [pc |-> "idle", sync_started_at |-> 0, active_before |-> {},
     walked |-> <<>>, rows |-> <<>>, outcome |-> outcome]

ZrIdle(result) ==
    [pc |-> "idle", key |-> 0, existing |-> FALSE, now |-> 0, result |-> result]

NoEvent ==
    [op |-> "none", walked |-> {}, archived |-> {}, reactivated |-> {},
     inserted |-> {}, repeat |-> FALSE, quiet |-> FALSE]

HistInit ==
    [last |-> NoEvent,      \* what the step just taken did to the table
     runs |-> 0,            \* committed import_from_folder runs
     prevTree |-> <<>>,     \* the tree the last committed run walked
     prevDirty |-> FALSE,   \* another writer wrote while that run was going
     gapDirty |-> FALSE,    \* another writer wrote since that run's commit
     runDirty |-> FALSE,    \* another writer wrote since this run started
     userWrites |-> 0]

SvIdle ==
    [pc |-> "idle", request |-> <<>>, idx |-> 0, step |-> "none",
     persisted_count |-> 0, writes |-> 0, before |-> EmptyTable,
     requests |-> 0]
SpIdle == [pc |-> "idle"]
FnIdle == [op |-> "none"]

\* another writer than import_from_folder touched the table
OtherWrite(h, event) ==
    [h EXCEPT !.last = event, !.gapDirty = TRUE, !.runDirty = TRUE]

\* a step that writes nothing
Quiet(h) == [h EXCEPT !.last = NoEvent]

Active(table) == {k \in DOMAIN table : table[k]["is_archived"] = 0}

\* import_from_folder: sync_started_at = datetime.now(), the active rows are
\* counted, then either the folder is missing (early return, no write) or
\* the walk begins
FolderStart ==
    /\ fr.pc = "idle"
    /\ clock < MaxClock
    /\ clock' = clock + 1
    /\ \E exists \in BOOLEAN :
          fr' = IF exists
                THEN [pc |-> "started", sync_started_at |-> clock',
                      active_before |-> Active(db), walked |-> <<>>,
                      rows |-> <<>>, outcome |-> "running"]
                ELSE FrIdle("not_found")
    /\ hist' = [Quiet(hist) EXCEPT !.runDirty = FALSE]
    /\ UNCHANGED <<db, txn, checkedOut, tree, zr, sv, sp, fn>>

\* Phase 1: os.walk collects the rows, no database write
FolderWalk ==
    /\ fr.pc = "started"
    /\ fr' = [fr EXCEPT !.pc = "walked", !.walked = tree,
                        !.rows = WalkRows(tree, fr.sync_started_at)]
    /\ hist' = Quiet(hist)
    /\ UNCHANGED <<db, txn, checkedOut, clock, tree, zr, sv, sp, fn>>

\* Phase 2, first statement: transaction() borrows a connection and
\* batch_upsert_resources writes the rows into the open transaction
FolderUpsert ==
    /\ fr.pc = "walked"
    /\ ~BatchUpsertRaises(fr.rows)
    /\ LET view == batch_upsert_resources(Overlay(db, txn), fr.rows) IN
          txn' = [k \in DOMAIN txn \cup RowKeys(fr.rows) |-> view[k]]
    /\ checkedOut' = checkedOut + 1
    /\ fr' = [fr EXCEPT !.pc = "upserted"]
    /\ hist' = Quiet(hist)
    /\ UNCHANGED <<db, clock, tree, zr, sv, sp, fn>>

\* Phase 2, second statement: archive_stale_resources(conn=conn)
FolderArchive ==
    /\ fr.pc = "upserted"
    /\ LET view == Overlay(db, txn)
           stale == StaleKeys(view, fr.sync_started_at)
           after == archive_stale_resources(view, fr.sync_started_at)
       IN txn' = [k \in DOMAIN txn \cup stale |-> after[k]]
    /\ fr' = [fr EXCEPT !.pc = "archived"]
    /\ hist' = Quiet(hist)
    /\ UNCHANGED <<db, checkedOut, clock, tree, zr, sv, sp, fn>>

\* the with-block ends: conn.commit(), return_connection(healthy)
FolderCommit ==
    /\ fr.pc = "archived"
    /\ db' = TransactionCommit(db, txn)
    /\ txn' = EmptyTable
    /\ checkedOut' = checkedOut - 1
    /\ fr' = FrIdle("committed")
    /\ hist' = [hist EXCEPT
          !.last = [op |-> "commit",
                    walked |-> RowKeys(fr.rows),
                    archived |-> Active(db) \ Active(db'),
                    reactivated |-> (DOMAIN db \ Active(db)) \cap Active(db'),
                    inserted |-> DOMAIN db' \ DOMAIN db,
                    repeat |-> hist.runs > 0 /\ hist.prevTree = fr.walked
                                  /\ ~hist.gapDirty,
                    quiet |-> ~hist.prevDirty],
          !.runs = 1,
          !.prevTree = fr.walked,
          !.prevDirty = hist.runDirty,
          !.gapDirty = FALSE]
    /\ UNCHANGED <<clock, tree, zr, sv, sp, fn>>

\* a statement of the block (or the commit) raises: conn.rollback(),
\* return_connection(healthy=False), the exception leaves import_from_folder
FolderRaise ==
    /\ fr.pc \in {"walked", "upserted", "archived"}
    /\ db' = TransactionRollback(db, txn)
    /\ txn' = EmptyTable
    /\ checkedOut' = IF fr.pc = "walked" THEN checkedOut ELSE checkedOut - 1
    /\ fr' = FrIdle("raised")
    /\ hist' = [hist EXCEPT !.last =
          [NoEvent EXCEPT !.op = "rollback",
                          !.walked = DOMAIN txn \cap RowKeys(fr.rows),
                          !.archived = Active(db) \ Active(Overlay(db, txn))]]
    /\ UNCHANGED <<clock, tree, zr, sv, sp, fn>>

\* the folder on disk changes: a file appears or disappears.  Only the
\* walk reads the tree, so a change after the walk is taken to happen
\* once the run is over.
ChangeTree ==
    /\ fr.pc \in {"idle", "started"}
    /\ \E k \in Keys, v \in {Absent, 0} :
          /\ tree[k] # v
          /\ tree' = [tree EXCEPT ![k] = v]
    /\ hist' = Quiet(hist)
    /\ UNCHANGED <<db, txn, checkedOut, clock, fr, zr, sv, sp, fn>>

\* import_from_zip reaches a file: upsert_resource takes now and runs its
\* SELECT (a statement of its own, it sees committed rows only)
ZipSelect ==
    /\ zr.pc = "idle"
    /\ clock < MaxClock
    /\ clock' = clock + 1
    /\ \E k \in Keys :
          zr' = [pc |-> "selected", key |-> k, existing |-> k \in DOMAIN db,
                 now |-> clock', result |-> "running"]
    /\ hist' = Quiet(hist)
    /\ UNCHANGED <<db, txn, checkedOut, tree, fr, sv, sp, fn>>

\* upsert_resource, second statement: UPDATE when the SELECT found the row,
\* INSERT otherwise (a key inserted in the meantime violates the primary
\* key).  A row locked by the open transaction makes the statement wait.
ZipWrite ==
    /\ zr.pc = "selected"
    /\ zr.key \notin DOMAIN txn
    /\ LET k == zr.key
           values == FileRow(k, 0, zr.now, "zip")
           wasArchived == k \in DOMAIN db /\ db[k]["is_archived"] = 1
           event == [NoEvent EXCEPT
                        !.reactivated = IF wasArchived THEN {k} ELSE {}]
       IN
       IF zr.existing
       THEN /\ db' = [db EXCEPT ![k] = UpsertResource_Update(db[k], values)]
            /\ zr' = ZrIdle("updated")
            /\ hist' = OtherWrite(hist, [event EXCEPT !.op = "upsert_update"])
       ELSE IF k \in DOMAIN db
       THEN /\ db' = db
            /\ zr' = ZrIdle("raised")
            /\ hist' = Quiet(hist)
       ELSE /\ db' = [j \in DOMAIN db \cup {k} |->
                        IF j = k THEN UpsertResource_Insert(values) ELSE db[j]]
            /\ zr' = ZrIdle("new")
            /\ hist' = OtherWrite(hist, [event EXCEPT !.op = "upsert_insert",
                                           !.inserted = {k}])
    /\ UNCHANGED <<txn, checkedOut, clock, tree, fr, sv, sp, fn>>

\* a user records a decision: each is one UPDATE that execute() commits;
\* it waits while the open transaction holds the row
UserWrite(k, row, op) ==
    /\ hist.userWrites < MaxUserWrites
    /\ k \in DOMAIN db
    /\ k \notin DOMAIN txn
    /\ db' = [db EXCEPT ![k] = row]
    /\ hist' = [OtherWrite(hist, [NoEvent EXCEPT !.op = op])
                  EXCEPT !.userWrites = hist.userWrites + 1]
    /\ UNCHANGED <<txn, checkedOut, clock, tree, fr, zr, sv, sp, fn>>

UserScrub ==
    \E k \in DOMAIN db :
       UserWrite(k, update_resource_scrub(db[k], "Include", "test",
                                          "Test note", "Operations", clock),
                 "scrub")

UserSalesStage ==
    \E k \in DOMAIN db :
       UserWrite(k, update_sales_stage(db[k], "stage_1_identify"), "stage")

UserInvest ==
    \E k \in DOMAIN db :
       UserWrite(k, update_resource_invest(db[k], "High", "test", "2w",
                                           "Test invest", clock),
                 "invest")

Init ==
    /\ db = EmptyTable
    /\ txn = EmptyTable
    /\ checkedOut = 0
    /\ clock = 0
    /\ tree \in [Keys -> {Absent, 0}]
    /\ fr = FrIdle("none")
    /\ zr = ZrIdle("none")
    /\ hist = HistInit
    /\ sv = SvIdle
    /\ sp = SpIdle
    /\ fn = FnIdle

Next ==
    \/ FolderStart
    \/ FolderWalk
    \/ FolderUpsert
    \/ FolderArchive
    \/ FolderCommit
    \/ FolderRaise
    \/ ChangeTree
    \/ ZipSelect
    \/ ZipWrite
    \/ UserScrub
    \/ UserSalesStage
    \/ UserInvest

Spec == Init /\ [][Next]_vars

\* =========================================================================
\* Claims about the import and reconciliation protocol (specification Spec)
\* =========================================================================
\* the step is the second statement of upsert_resource
IsZipWriteStep == zr.pc = "selected" /\ zr'.pc = "idle"

\* the step is the commit of import_from_folder's transaction
IsFolderCommitStep ==
    fr.pc = "archived" /\ fr'.pc = "idle" /\ fr'.outcome = "committed"

SameDecisions(old, new) == \A c \in DecisionColumns : new[c] = old[c]

\* C1: an upsert of a resource_key that already exists (upsert_resource, or
\* batch_upsert_resources at the commit of a re-sync) leaves every decision
\* column of that row (scrub_*, audience, sales_stage, invest_*) as it was,
\* also when the upsert reactivates an archived row.
C1_UpsertKeepsDecisions ==
    [][(IsZipWriteStep \/ IsFolderCommitStep) =>
          \A k \in DOMAIN db : SameDecisions(db[k], db'[k])]_vars

\* C1 witness: an upsert has just reactivated an archived row that carries
\* a user's decision.
C1_Witness ==
    /\ hist.last.op \in {"commit", "upsert_update"}
    /\ \E k \in hist.last.reactivated :
          \/ db[k]["scrub_status"] = "Include"
          \/ db[k]["invest_decision"] = "High"
          \/ db[k]["sales_stage"] = "stage_1_identify"

\* C2: when a run of import_from_folder started at S commits, every key the
\* walk produced is active with last_seen = S, and every row that was active
\* with last_seen < S (or NULL) and was not produced by the walk is archived;
\* so a key archived by one run is active again after a later run that walks
\* it.
C2_CommitReconciles ==
    [][IsFolderCommitStep =>
          /\ \A k \in RowKeys(fr.rows) :
                /\ k \in DOMAIN db'
                /\ db'[k]["is_archived"] = 0
                /\ db'[k]["last_seen"] = fr.sync_started_at
          /\ \A k \in fr.active_before \ RowKeys(fr.rows) :
                (\/ db[k]["last_seen"] = NullTime
                 \/ db[k]["last_seen"] < fr.sync_started_at)
                => db'[k]["is_archived"] = 1]_vars

\* C2 witness: one commit has archived a row that left the tree and has
\* reactivated a row that an earlier run had archived.
C2_Witness ==
    /\ hist.last.op = "commit"
    /\ hist.last.archived # {}
    /\ hist.last.reactivated # {}
    /\ hist.last.reactivated \subseteq hist.last.walked

\* the two tables hold the same keys and differ in no column but last_seen
OnlyLastSeenDiffers(old, new) ==
    /\ DOMAIN new = DOMAIN old
    /\ \A k \in DOMAIN old :
          \A c \in Columns \ {"last_seen"} : new[k][c] = old[k][c]

\* the run that commits walked the tree the previous committed run walked,
\* and nobody else wrote since that run's commit
IsRepeatRun ==
    /\ hist.runs > 0
    /\ hist.prevTree = fr.walked
    /\ ~hist.gapDirty

\* C3 as stated: a second run over an unchanged tree, with no other write
\* between the two runs, inserts and archives nothing and changes no column
\* but last_seen.
C3_Original ==
    [][(IsFolderCommitStep /\ IsRepeatRun) => OnlyLastSeenDiffers(db, db')]_vars

\* C3 amended: the same, when also no other writer wrote while the first
\* run was in progress (between its sync_started_at and its commit).
C3_Idempotent ==
    [][(IsFolderCommitStep /\ IsRepeatRun /\ ~hist.prevDirty)
          => OnlyLastSeenDiffers(db, db')]_vars

\* C3 witness: a repeat run over a tree that holds files has committed with
\* no other writer since the start of the run before it.
C3_Witness ==
    /\ hist.last.op = "commit"
    /\ hist.last.repeat
    /\ hist.last.quiet
    /\ hist.last.walked # {}

\* the step belongs to import_from_folder
IsFolderStep == fr' # fr

\* C6: the batch upsert and the archival of Phase 2 become visible together
\* at the commit and not before, and when a statement of the block raises
\* nothing of the run is visible, the transaction is gone and its connection
\* is back in the pool.
C6_Phase2Atomic ==
    [][IsFolderStep =>
          /\ ~IsFolderCommitStep => db' = db
          /\ fr'.pc = "idle" => txn' = EmptyTable /\ checkedOut' = 0]_vars

\* C6 witness: the block has just been rolled back with upserted rows and
\* archived rows pending in it.
C6_Witness ==
    /\ hist.last.op = "rollback"
    /\ hist.last.walked # {}
    /\ hist.last.archived # {}
    /\ txn = EmptyTable
    /\ checkedOut = 0

\* =========================================================================
\* save_scrub_batch_view (tcm_app/views.py), specification SpecScrub
\* =========================================================================
MaxBatch == 2     \* dirty keys in one request
MaxRequests == 2  \* requests in one behaviour
MaxConn == 10     \* ThreadedConnectionPool(maxconn=10)

VALID_SCRUB_DECISIONS == {"not_reviewed", "Include", "Modify", "Sunset"}

CANONICAL_AUDIENCES ==
    {"Direct Sales", "Indirect Sales", "Integration", "FI",
     "Partner Management", "Operations", "Compliance", "POS"}

SALES_STAGE_KEYS ==
    {"stage_1_identify", "stage_2_appointment", "stage_3_prep",
     "stage_4_make_sale", "stage_5_close", "stage_6_referrals"}

\* request.POST.get(name, '').strip() or None
OrNone(text) == IF text = "" THEN Null ELSE text

\* the stored decision of a submitted status
DecisionOf(status_input) ==
    IF status_input = "Unreviewed" THEN "not_reviewed" ELSE status_input

\* a validation that does not look at the sales stage
RowError_NoStageCheck(input) ==
    IF DecisionOf(input.status) \notin VALID_SCRUB_DECISIONS THEN "Status"
    ELSE IF OrNone(input.audience) # Null
            /\ input.audience \notin CANONICAL_AUDIENCES THEN "Audience"
    ELSE "none"

\* Phase 1 for one dirty key: the field the row fails on, or "none"
RowError(input) ==
    IF DecisionOf(input.status) \notin VALID_SCRUB_DECISIONS THEN "Status"
    ELSE IF OrNone(input.audience) # Null
            /\ input.audience \notin CANONICAL_AUDIENCES THEN "Audience"
    ELSE IF OrNone(input.stage) # Null
            /\ input.stage \notin SALES_STAGE_KEYS THEN "Sales Stage"
    ELSE "none"

\* the errors list of Phase 1 is not empty
HasErrors(request) ==
    \E i \in 1..Len(request) : RowError(request[i]) # "none"

\* the rows a form can submit: two valid rows and one row per failing field
ValidInputs ==
    {[status |-> "Include", audience |-> "Operations",
      stage |-> "stage_1_identify", notes |-> "Test note"],
     [status |-> "Unreviewed", audience |-> "", stage |-> "", notes |-> ""]}

InvalidInputs ==
    {[status |-> "PASS", audience |-> "", stage |-> "", notes |-> ""],
     [status |-> "Modify", audience |-> "Sales", stage |-> "", notes |-> ""],
     [status |-> "Sunset", audience |-> "POS", stage |-> "stage_7",
      notes |-> ""]}

RowInputs ==
    {[key |-> k, status |-> i.status, audience |-> i.audience,
      stage |-> i.stage, notes |-> i.notes] :
        k \in Keys, i \in ValidInputs \cup InvalidInputs}

Requests == UNION {[1..n -> RowInputs] : n \in 1..MaxBatch}

\* the UPDATE of a key that has no row changes nothing
WriteRow(table, k, row) ==
    IF k \in DOMAIN table THEN [table EXCEPT ![k] = row] ELSE table

\* Phases 1 and 2, then get_connection(): a request with a failing row is
\* answered without a write; a pool with no free connection raises, which
\* the except branch of Phase 3 reports as a database error
SaveBegin ==
    /\ sv.pc \in {"idle", "rejected", "db_error", "saved"}
    /\ sv.requests < MaxRequests
    /\ \E request \in Requests :
          LET begun == [SvIdle EXCEPT !.request = request, !.before = db,
                                      !.requests = sv.requests + 1] IN
          IF HasErrors(request)
          THEN /\ sv' = [begun EXCEPT !.pc = "rejected"]
               /\ checkedOut' = checkedOut
          ELSE IF checkedOut >= MaxConn
          THEN /\ sv' = [begun EXCEPT !.pc = "db_error"]
               /\ checkedOut' = checkedOut
          ELSE /\ sv' = [begun EXCEPT !.pc = "writing", !.idx = 1,
                                      !.step = "scrub"]
               /\ checkedOut' = checkedOut + 1
    /\ UNCHANGED <<db, txn, clock, tree, fr, zr, hist, sp, fn>>

\* Phase 3, update_resource_scrub of the current row: execute() borrows a
\* connection of its own, runs the UPDATE, commits and returns it
SaveWriteScrub ==
    /\ sv.pc = "writing"
    /\ sv.step = "scrub"
    /\ checkedOut < MaxConn
    /\ LET input == sv.request[sv.idx] IN
          db' = WriteRow(db, input.key,
                   update_resource_scrub(db[input.key],
                       DecisionOf(input.status), "", OrNone(input.notes),
                       OrNone(input.audience), clock))
    /\ sv' = [sv EXCEPT !.step = "stage", !.writes = sv.writes + 1]
    /\ UNCHANGED <<txn, checkedOut, clock, tree, fr, zr, hist, sp, fn>>

\* Phase 3, update_sales_stage of the current row, committed by execute()
SaveWriteStage ==
    /\ sv.pc = "writing"
    /\ sv.step = "stage"
    /\ checkedOut < MaxConn
    /\ LET input == sv.request[sv.idx] IN
          db' = WriteRow(db, input.key,
                   update_sales_stage(db[input.key], OrNone(input.stage)))
    /\ sv' = IF sv.idx < Len(sv.request)
             THEN [sv EXCEPT !.idx = sv.idx + 1, !.step = "scrub",
                             !.writes = sv.writes + 1,
                             !.persisted_count = sv.persisted_count + 1]
             ELSE [sv EXCEPT !.step = "commit", !.writes = sv.writes + 1,
                             !.persisted_count = sv.persisted_count + 1]
    /\ UNCHANGED <<txn, checkedOut, clock, tree, fr, zr, hist, sp, fn>>

\* a write of Phase 3 raises (the pool is exhausted, the server is gone):
\* the except branch answers "Database error ... No changes saved"
SaveRaise ==
    /\ sv.pc = "writing"
    /\ sv.step \in {"scrub", "stage"}
    /\ sv' = [sv EXCEPT !.pc = "db_error"]
    /\ UNCHANGED <<db, txn, checkedOut, clock, tree, fr, zr, hist, sp, fn>>

\* conn.commit() on the connection the view borrowed, on which no
\* statement ran; the view never calls return_connection
SaveCommit ==
    /\ sv.pc = "writing"
    /\ sv.step = "commit"
    /\ sv' = [sv EXCEPT !.pc = "saved"]
    /\ UNCHANGED <<db, txn, checkedOut, clock, tree, fr, zr, hist, sp, fn>>

\* the table after an import: every key has a row nobody has reviewed; the
\* pool is fresh, or earlier requests have left it with one or no free
\* connection
InitScrub ==
    /\ db = [k \in Keys |-> UpsertResource_Insert(FileRow(k, 0, 1, "zip"))]
    /\ txn = EmptyTable
    /\ checkedOut \in {0, MaxConn - 1, MaxConn}
    /\ clock = 1
    /\ tree = [k \in Keys |-> 0]
    /\ fr = FrIdle("none")
    /\ zr = ZrIdle("none")
    /\ hist = HistInit
    /\ sv = SvIdle
    /\ sp = SpIdle
    /\ fn = FnIdle

NextScrub ==
    \/ SaveBegin
    \/ SaveWriteScrub
    \/ SaveWriteStage
    \/ SaveRaise
    \/ SaveCommit

SpecScrub == InitScrub /\ [][NextScrub]_vars

\* a submitted row fails validation, in the words of the contract
FailsValidation(input) ==
    \/ (IF input.status = "Unreviewed" THEN "not_reviewed" ELSE input.status)
           \notin {"not_reviewed", "Include", "Modify", "Sunset"}
    \/ input.audience # "" /\ input.audience \notin CANONICAL_AUDIENCES
    \/ input.stage # "" /\ input.stage \notin SALES_STAGE_KEYS

\* C7: when a row of the request fails validation, the request is answered
\* "Save failed" and nothing of it is persisted: no UPDATE is issued, for
\* the valid rows either, and the table is as it was.
C7_InvalidRowBlocksAll ==
    (sv.pc # "idle"
        /\ \E i \in 1..Len(sv.request) : FailsValidation(sv.request[i])) =>
        /\ sv.pc = "rejected"
        /\ sv.writes = 0
        /\ sv.persisted_count = 0
        /\ db = sv.before

\* C7 witness: a request of a valid and an invalid row has been rejected
\* after an earlier request had changed the table.
C7_Witness ==
    /\ sv.pc = "rejected"
    /\ \E i, j \in 1..Len(sv.request) :
          /\ ~FailsValidation(sv.request[i])
          /\ FailsValidation(sv.request[j])
    /\ \E k \in Keys : db[k]["scrub_status"] = "Include"

\* C8: when a write of Phase 3 raises, the table is as it was before the
\* request: nothing written earlier in the request remains.
C8_FailedBatchLeavesNothing ==
    sv.pc = "db_error" => db = sv.before

\* =========================================================================
\* Text: a Python str is a sequence of one-character strings
\* =========================================================================
UpperLetters ==
    <<"A", "B", "C", "D", "E", "F", "G", "H", "I", "J", "K", "L", "M",
      "N", "O", "P", "Q", "R", "S", "T", "U", "V", "W", "X", "Y", "Z">>

LowerLetters ==
    <<"a", "b", "c", "d", "e", "f", "g", "h", "i", "j", "k", "l", "m",
      "n", "o", "p", "q", "r", "s", "t", "u", "v", "w", "x", "y", "z">>

LowerChar(c) ==
    IF \E i \in DOMAIN UpperLetters : UpperLetters[i] = c
    THEN LowerLetters[CHOOSE i \in DOMAIN UpperLetters : UpperLetters[i] = c]
    ELSE c

\* str.lower()
Lower(s) == [i \in 1..Len(s) |-> LowerChar(s[i])]

\* str.replace(old, new) for one-character old and new
Replace(s, old, new) == [i \in 1..Len(s) |-> IF s[i] = old THEN new ELSE s[i]]

\* str.lstrip(ch)
RECURSIVE LStrip(_, _)
LStrip(s, ch) ==
    IF s # <<>> /\ Head(s) = ch THEN LStrip(Tail(s), ch) ELSE s

\* str.rstrip(ch)
RECURSIVE RStrip(_, _)
RStrip(s, ch) ==
    IF s # <<>> /\ s[Len(s)] = ch THEN RStrip(SubSeq(s, 1, Len(s) - 1), ch)
    ELSE s

\* str.strip(ch)
Strip(s, ch) == RStrip(LStrip(s, ch), ch)

\* str.split(sep): the pieces between the separators, empty pieces included
RECURSIVE SplitFrom(_, _, _, _)
SplitFrom(s, sep, piece, pieces) ==
    IF s = <<>> THEN Append(pieces, piece)
    ELSE IF Head(s) = sep
         THEN SplitFrom(Tail(s), sep, <<>>, Append(pieces, piece))
         ELSE SplitFrom(Tail(s), sep, Append(piece, Head(s)), pieces)

Split(s, sep) == SplitFrom(s, sep, <<>>, <<>>)

\* str.startswith(prefix)
StartsWith(s, prefix) ==
    /\ Len(s) >= Len(prefix)
    /\ SubSeq(s, 1, Len(prefix)) = prefix

\* "sep".join(pieces)
RECURSIVE Join(_, _)
Join(pieces, sep) ==
    IF pieces = <<>> THEN <<>>
    ELSE IF Len(pieces) = 1 THEN pieces[1]
    ELSE pieces[1] \o sep \o Join(Tail(pieces), sep)

\* the value None where a str is expected
None == <<"None">>

\* Python truth value of an optional str
Truthy(v) == v # None /\ v # <<>>

\* =========================================================================
\* services/container_service.py: depth rules
\* =========================================================================
\* parse_path: separators normalised, surrounding slashes stripped, the
\* non-empty pieces are the levels L0, L1, ...
PathParts(relative_path) ==
    SelectSeq(Split(Strip(Replace(relative_path, "\\", "/"), "/"), "/"),
              LAMBDA p : p # <<>>)

parse_path(relative_path) ==
    LET parts == PathParts(relative_path)
    IN  [primary_department |-> IF Len(parts) > 0 THEN parts[1] ELSE None,
         sub_department |-> IF Len(parts) > 1 THEN parts[2] ELSE None,
         depth |-> Len(parts)]

L3Depth == 4

links_txt == <<"l", "i", "n", "k", "s", ".", "t", "x", "t">>

is_leaf_container(relative_path, is_folder, filename) ==
    LET current_depth == parse_path(relative_path).depth
    IN  IF Lower(filename) = links_txt THEN current_depth = L3Depth
        ELSE IF is_folder THEN current_depth = L3Depth + 1
        ELSE current_depth >= L3Depth

\* =========================================================================
\* db.py: make_resource_key
\* =========================================================================
\* hashlib.sha256(raw).hexdigest()[:32]: the digest is taken to be free of
\* collisions, so it is the tagged input
Sha256Hex32(raw) == <<"sha256:">> \o raw

make_resource_key_NoLower(drive_item_id, relative_path, resource_type) ==
    IF Truthy(drive_item_id) THEN drive_item_id
    ELSE Sha256Hex32(relative_path \o <<"|">> \o resource_type)

make_resource_key(drive_item_id, relative_path, resource_type) ==
    IF Truthy(drive_item_id) THEN drive_item_id
    ELSE Sha256Hex32(Lower(relative_path) \o <<"|">> \o resource_type)

\* =========================================================================
\* Calls of the pure functions (specification SpecFn)
\* =========================================================================
MaxKeyPathLen == 2
MaxDepth == 6

\* relative paths handed to make_resource_key
KeyAlphabet == {"a", "A", "/"}
KeyPaths ==
    UNION {[1..n -> KeyAlphabet] : n \in 0..MaxKeyPathLen}
DriveItemIds == {None, <<>>, <<"0", "1", "A">>}
ResourceTypes == {<<"file">>, <<"folder">>, <<"link">>}
KeyArgs ==
    [drive_item_id : DriveItemIds, relative_path : KeyPaths,
     resource_type : ResourceTypes]

\* relative paths handed to is_leaf_container: n levels, written with either
\* separator, with or without a leading, trailing or doubled separator
BuildPath(n, sep, lead, trail, dbl) ==
    (IF lead THEN <<sep>> ELSE <<>>)
    \o Join([i \in 1..n |-> <<"d">>], IF dbl THEN <<sep, sep>> ELSE <<sep>>)
    \o (IF trail THEN <<sep>> ELSE <<>>)

Filenames ==
    {links_txt,
     <<"L", "I", "N", "K", "S", ".", "T", "X", "T">>,
     <<"g", "u", "i", "d", "e", ".", "p", "d", "f">>}

CallMakeResourceKey ==
    /\ fn = FnIdle
    /\ \E a \in KeyArgs, b \in KeyArgs :
          fn' = [op |-> "make_resource_key", a |-> a, b |-> b,
                 ka |-> make_resource_key(a.drive_item_id, a.relative_path,
                                          a.resource_type),
                 kb |-> make_resource_key(b.drive_item_id, b.relative_path,
                                          b.resource_type)]
    /\ UNCHANGED <<db, txn, checkedOut, clock, tree, fr, zr, hist, sv, sp>>

CallIsLeafContainer ==
    /\ fn = FnIdle
    /\ \E n \in 0..MaxDepth, sep \in {"/", "\\"}, lead \in BOOLEAN,
          trail \in BOOLEAN, dbl \in BOOLEAN, is_folder \in BOOLEAN,
          filename \in Filenames :
          LET relative_path == BuildPath(n, sep, lead, trail, dbl)
          IN  fn' = [op |-> "is_leaf_container", levels |-> n,
                     relative_path |-> relative_path,
                     is_folder |-> is_folder, filename |-> filename,
                     result |-> is_leaf_container(relative_path, is_folder,
                                                  filename)]
    /\ UNCHANGED <<db, txn, checkedOut, clock, tree, fr, zr, hist, sv, sp>>

\* ------------------------------------------------ links.txt expansion
MaxLines == 3

Whitespace == {" ", "\n", "\t", "\r"}

\* str.strip() without argument
RECURSIVE LStripWs(_)
LStripWs(s) ==
    IF s # <<>> /\ Head(s) \in Whitespace THEN LStripWs(Tail(s)) ELSE s

RECURSIVE RStripWs(_)
RStripWs(s) ==
    IF s # <<>> /\ s[Len(s)] \in Whitespace
    THEN RStripWs(SubSeq(s, 1, Len(s) - 1))
    ELSE s

StripWs(s) == RStripWs(LStripWs(s))

HttpScheme == <<"h", "t", "t", "p", ":", "/", "/">>
HttpsScheme == <<"h", "t", "t", "p", "s", ":", "/", "/">>
WwwDot == <<"w", "w", "w", ".">>

\* the loop body of parse_links_content: the URL a line yields, or None
LineUrl(raw_line) ==
    LET line == StripWs(raw_line)
    IN  IF line = <<>> \/ Head(line) = "#" THEN None
        ELSE IF StartsWith(line, WwwDot) THEN HttpsScheme \o line
        ELSE IF ~(StartsWith(line, HttpScheme) \/ StartsWith(line, HttpsScheme))
             THEN None
        ELSE line

\* parse_links_content(content)['urls']
parse_links_content(content) ==
    LET lines == IF content = <<>> THEN <<>>
                 ELSE Split(StripWs(content), "\n")
        urls == [i \in 1..Len(lines) |-> LineUrl(lines[i])]
    IN  SelectSeq(urls, LAMBDA u : u # None)

\* hashlib.sha256(key_source).hexdigest()[:16], taken free of collisions
Sha256Hex16(raw) == <<"sha256:">> \o raw

\* the row import_from_folder appends for one URL of a links.txt
LinkRow(parent_path, url, sync_started_at) ==
    [resource_key |-> Sha256Hex16(parent_path \o <<"|">> \o url \o <<"|">>
                                  \o <<"link">>),
     relative_path |-> parent_path \o <<"/">> \o links_txt \o <<"#">>
                       \o Sha256Hex16(url),
     resource_type |-> "link",
     display_name |-> url,
     web_url |-> url,
     resource_count |-> 1,
     valid_link_count |-> 1,
     contents_count |-> 0,
     is_placeholder |-> 0,
     first_seen |-> sync_started_at,
     last_seen |-> sync_started_at,
     source |-> "folder",
     is_archived |-> 0]

\* the rows import_from_folder collects for a links.txt under parent_path
LinkRows(parent_path, content, sync_started_at) ==
    IF ~is_leaf_container(parent_path, FALSE, links_txt) THEN <<>>
    ELSE LET urls == parse_links_content(content)
         IN  [i \in 1..Len(urls) |->
                 LinkRow(parent_path, urls[i], sync_started_at)]

\* the lines a links.txt is written with
LinkLines ==
    {HttpsScheme \o <<"a">>,
     HttpScheme \o <<"b">>,
     <<" ">> \o HttpsScheme \o <<"c">> \o <<" ">>,
     WwwDot \o <<"d">>,
     <<"f", "t", "p", ":", "/", "/", "e">>,
     <<"#">> \o HttpsScheme \o <<"f">>,
     <<>>}

LinkFiles == UNION {[1..n -> LinkLines] : n \in 0..MaxLines}

L3Path == BuildPath(L3Depth, "/", FALSE, FALSE, FALSE)

\* import_from_folder meets a links.txt under an L3 folder
ExpandLinksTxt ==
    /\ fn = FnIdle
    /\ \E lines \in LinkFiles :
          fn' = [op |-> "expand_links", lines |-> lines,
                 rows |-> LinkRows(L3Path, Join(lines, <<"\n">>), 1)]
    /\ UNCHANGED <<db, txn, checkedOut, clock, tree, fr, zr, hist, sv, sp>>

\* ------------------------------------------------- compute_file_count
\* how a call ends: with an exception or with a value
Raise(exception) == [exception |-> exception, value |-> None]
Return(value) == [exception |-> "none", value |-> value]

\* a Python value: None, an int or a str
PyNone == [t |-> "None", n |-> 0, s |-> <<>>]
PyInt(n) == [t |-> "int", n |-> n, s |-> <<>>]
PyStr(s) == [t |-> "str", n |-> 0, s |-> s]

Digits == <<"0", "1", "2", "3", "4", "5", "6", "7", "8", "9">>
DigitValue(c) == (CHOOSE i \in 1..10 : Digits[i] = c) - 1
IsDigits(s) ==
    s # <<>> /\ \A i \in 1..Len(s) : \E j \in 1..10 : Digits[j] = s[i]

RECURSIVE DecimalValue(_)
DecimalValue(s) ==
    IF s = <<>> THEN 0
    ELSE 10 * DecimalValue(SubSeq(s, 1, Len(s) - 1)) + DigitValue(s[Len(s)])

\* value or 0
OrZero(v) ==
    IF v.t = "None" \/ v = PyInt(0) \/ v = PyStr(<<>>) THEN PyInt(0) ELSE v

\* int(value): the number, or the exception it raises
int(v) ==
    IF v.t = "int" THEN Return(v.n)
    ELSE IF v.t = "None" THEN Raise("TypeError")
    ELSE IF IsDigits(v.s) THEN Return(DecimalValue(v.s))
    ELSE IF Len(v.s) > 1 /\ Head(v.s) = "-" /\ IsDigits(Tail(v.s))
    THEN Return(0 - DecimalValue(Tail(v.s)))
    ELSE Raise("ValueError")

Max(a, b) == IF a >= b THEN a ELSE b

\* resource.get(key, default) on a dict given as its set of items
Get(resource, key, default) ==
    IF \E p \in resource : p[1] = key
    THEN (CHOOSE p \in resource : p[1] = key)[2]
    ELSE default

compute_file_count(resource) ==
    LET resource_type == Get(resource, "resource_type", PyStr(<<>>))
        count == int(OrZero(Get(resource, "valid_link_count", PyNone)))
    IN  IF resource_type = PyStr(<<"file">>) THEN 1
        ELSE IF resource_type \in {PyStr(<<"link">>), PyStr(<<"links">>)}
        THEN IF count.exception # "none" THEN 0 ELSE Max(count.value, 0)
        ELSE 0

\* the values a count column or key can hold
CountValues ==
    {PyNone, PyInt(0 - 3), PyInt(0), PyInt(4), PyStr(<<"5">>),
     PyStr(<<"1", "2">>), PyStr(<<"-", "3">>), PyStr(<<"a", "b", "c">>),
     PyStr(<<>>)}

ItemsOf(key, values) == {{}} \cup {{<<key, v>>} : v \in values}

Resources ==
    {t \cup v \cup c :
        t \in ItemsOf("resource_type",
                      {PyStr(<<"file">>), PyStr(<<"link">>),
                       PyStr(<<"links">>), PyStr(<<"folder">>),
                       PyStr(<<"weird">>), PyNone}),
        v \in ItemsOf("valid_link_count", CountValues),
        c \in ItemsOf("contents_count", CountValues)}

CallComputeFileCount ==
    /\ fn = FnIdle
    /\ \E resource \in Resources :
          fn' = [op |-> "compute_file_count", resource |-> resource,
                 result |-> compute_file_count(resource)]
    /\ UNCHANGED <<db, txn, checkedOut, clock, tree, fr, zr, hist, sv, sp>>

\* the caller takes the result
FnReturn ==
    /\ fn # FnIdle
    /\ fn' = FnIdle
    /\ UNCHANGED <<db, txn, checkedOut, clock, tree, fr, zr, hist, sv, sp>>

InitFn ==
    /\ db = EmptyTable
    /\ txn = EmptyTable
    /\ checkedOut = 0
    /\ clock = 0
    /\ tree = [k \in Keys |-> Absent]
    /\ fr = FrIdle("none")
    /\ zr = ZrIdle("none")
    /\ hist = HistInit
    /\ sv = SvIdle
    /\ sp = SpIdle
    /\ fn = FnIdle

NextFn ==
    \/ CallMakeResourceKey
    \/ CallIsLeafContainer
    \/ ExpandLinksTxt
    \/ CallComputeFileCount
    \/ FnReturn

SpecFn == InitFn /\ [][NextFn]_vars

NotGiven(drive_item_id) == drive_item_id = None \/ drive_item_id = <<>>

SameLetter(c, d) ==
    \/ c = d
    \/ \E i \in DOMAIN UpperLetters :
          {c, d} = {UpperLetters[i], LowerLetters[i]}

EqualUpToCase(p, q) ==
    /\ Len(p) = Len(q)
    /\ \A i \in 1..Len(p) : SameLetter(p[i], q[i])

\* C9: without a drive_item_id, two calls of make_resource_key whose paths
\* are equal up to letter case and whose types are equal return the same
\* key, and two calls with the same path and different types return
\* different keys; with a drive_item_id the key is that id, whatever the
\* path and the type.
C9_KeyDeterministic ==
    fn.op = "make_resource_key" =>
       /\ ( /\ NotGiven(fn.a.drive_item_id)
            /\ NotGiven(fn.b.drive_item_id)
            /\ EqualUpToCase(fn.a.relative_path, fn.b.relative_path)
            /\ fn.a.resource_type = fn.b.resource_type )
          => fn.ka = fn.kb
       /\ ( /\ NotGiven(fn.a.drive_item_id)
            /\ NotGiven(fn.b.drive_item_id)
            /\ fn.a.relative_path = fn.b.relative_path
            /\ fn.a.resource_type # fn.b.resource_type )
          => fn.ka # fn.kb
       /\ ~NotGiven(fn.a.drive_item_id) => fn.ka = fn.a.drive_item_id
       /\ ~NotGiven(fn.b.drive_item_id) => fn.kb = fn.b.drive_item_id

\* two paths that differ in letter case only, same type, one key
C9_Witness ==
    /\ fn.op = "make_resource_key"
    /\ NotGiven(fn.a.drive_item_id)
    /\ NotGiven(fn.b.drive_item_id)
    /\ fn.a.relative_path # fn.b.relative_path
    /\ EqualUpToCase(fn.a.relative_path, fn.b.relative_path)
    /\ fn.a.resource_type = fn.b.resource_type
    /\ fn.ka = fn.kb

IsLinksTxt(filename) == EqualUpToCase(filename, links_txt)

\* C10: is_leaf_container classifies by depth alone: a folder at depth 1 to
\* 4 is never a container, a folder is a container exactly when its depth
\* is 5, a file whose parent is at depth 4 is a container, and links.txt is
\* a container only when its parent is at depth 4.
C10_DepthAlone ==
    fn.op = "is_leaf_container" =>
       /\ fn.is_folder => (fn.result <=> fn.levels = 5)
       /\ (~fn.is_folder /\ fn.levels = 4) => fn.result
       /\ (~fn.is_folder /\ IsLinksTxt(fn.filename) /\ fn.result)
             => fn.levels = 4

\* =========================================================================
\* services/sharepoint_service.py: the scope guard and the traversal
\* =========================================================================
\* a dict of str values is a set of <<key, value>> pairs
DictHas(d, key) == \E p \in d : p[1] = key

\* dict.get(key)
DictGet(d, key) ==
    IF DictHas(d, key) THEN (CHOOSE p \in d : p[1] = key)[2] ELSE None

\* f"/drives/{authorized_drive_id}/root:"
ExpectedPrefix(drive_id) ==
    <<"/", "d", "r", "i", "v", "e", "s", "/">> \o drive_id
    \o <<"/", "r", "o", "o", "t", ":">>

validate_item_in_scope_NoDriveMatch(item, authorized_drive_id) ==
    IF ~item.hasRef \/ item.parentReference = {} THEN "no parentReference"
    ELSE LET parent_ref == item.parentReference
             item_drive == DictGet(parent_ref, "driveId")
             parent_path == DictGet(parent_ref, "path")
         IN  IF ~Truthy(item_drive) THEN "no driveId"
             ELSE IF ~Truthy(parent_path) THEN "no path"
             ELSE IF ~StartsWith(parent_path,
                                 ExpectedPrefix(authorized_drive_id))
                  THEN "outside root"
             ELSE "ok"

\* the ScopeViolationError raised, or "ok" when the guard returns
validate_item_in_scope(item, authorized_drive_id) ==
    IF ~item.hasRef \/ item.parentReference = {} THEN "no parentReference"
    ELSE LET parent_ref == item.parentReference
             item_drive == DictGet(parent_ref, "driveId")
             parent_path == DictGet(parent_ref, "path")
         IN  IF ~Truthy(item_drive) THEN "no driveId"
             ELSE IF item_drive # authorized_drive_id
                  THEN "unauthorized drive"
             ELSE IF ~Truthy(parent_path) THEN "no path"
             ELSE IF ~StartsWith(parent_path,
                                 ExpectedPrefix(authorized_drive_id))
                  THEN "outside root"
             ELSE "ok"

_strip_drive_prefix(parent_path, drive_id) ==
    LET prefix == ExpectedPrefix(drive_id)
    IN  IF StartsWith(parent_path, prefix)
        THEN LStrip(SubSeq(parent_path, Len(prefix) + 1, Len(parent_path)),
                    "/")
        ELSE parent_path

_build_relative_path(item, drive_id) ==
    LET parent_path ==
            IF item.hasRef /\ DictHas(item.parentReference, "path")
            THEN DictGet(item.parentReference, "path") ELSE <<>>
        parent_relative == _strip_drive_prefix(parent_path, drive_id)
    IN  IF parent_relative # <<>>
        THEN parent_relative \o <<"/">> \o item.name
        ELSE item.name

desktop_ini == <<"d", "e", "s", "k", "t", "o", "p", ".", "i", "n", "i">>
guide_pdf == <<"g", "u", "i", "d", "e", ".", "p", "d", "f">>

EXCLUDED_FILENAMES ==
    {desktop_ini,
     <<".", "d", "s", "_", "s", "t", "o", "r", "e">>,
     <<"t", "h", "u", "m", "b", "s", ".", "d", "b">>}

instructions_txt ==
    <<"i", "n", "s", "t", "r", "u", "c", "t", "i", "o", "n", "s", ".",
      "t", "x", "t">>
instructions_pdf ==
    <<"i", "n", "s", "t", "r", "u", "c", "t", "i", "o", "n", "s", ".",
      "p", "d", "f">>

\* EXCLUDED_FILENAMES of container_service, the set the ZIP and the folder
\* import test a file name against
container_service_EXCLUDED_FILENAMES ==
    EXCLUDED_FILENAMES \cup {instructions_txt, instructions_pdf}

\* db.make_container_key and db.upsert_container, which the sync imports:
\* the key of a container is the key of the resource at that path, and an
\* upsert of a container is an upsert of the resource row, with the given
\* last_seen
make_container_key(relative_path, container_type) ==
    make_resource_key(None, relative_path, container_type)

upsert_container(table, values) ==
    LET k == values["resource_key"] IN
    IF k \in DOMAIN table
    THEN [table EXCEPT ![k] = UpsertResource_Update(table[k], values)]
    ELSE [j \in DOMAIN table \cup {k} |->
            IF j = k THEN UpsertResource_Insert(values) ELSE table[j]]

\* _download_file_content: the body on 200, the empty string otherwise
_download_file_content(item) ==
    IF item.status = 200 THEN item.text ELSE <<>>

Bump(t, counter) == [t EXCEPT !.stats[counter] = @ + 1]

Stats0 ==
    [folders_scanned |-> 0, files_scanned |-> 0, scope_violations |-> 0,
     skipped_excluded |-> 0, skipped_depth |-> 0,
     skipped_download_fail |-> 0, skipped_no_urls |-> 0]

\* calls: the upsert_container calls made so far, in order
Traversal0 ==
    [stats |-> Stats0, upserted |-> {}, recursed |-> {}, calls |-> <<>>]

\* the arguments of one upsert_container call that tell the rows apart
ContainerCall(item, container_key, relative_path, container_type, web_url) ==
    [id |-> item.id, container_key |-> container_key,
     relative_path |-> relative_path, container_type |-> container_type,
     web_url |-> web_url, source |-> "sharepoint"]

\* _process_folder_container, _process_file_container
ProcessContainer(t, item, relative_path, container_type) ==
    [t EXCEPT
        !.upserted = @ \cup {item.id},
        !.calls = Append(@, ContainerCall(item,
                     make_container_key(relative_path, <<container_type>>),
                     relative_path, container_type, None))]

\* _process_links_file
_process_links_file(t, item, parent_relative) ==
    LET content == _download_file_content(item)
        urls == parse_links_content(content)
    IN  IF content = <<>> THEN Bump(t, "skipped_download_fail")
        ELSE IF urls = <<>> THEN Bump(t, "skipped_no_urls")
        ELSE [t EXCEPT
                 !.upserted = @ \cup {item.id},
                 !.calls = @ \o
                     [i \in 1..Len(urls) |->
                         ContainerCall(item,
                             Sha256Hex16(parent_relative \o <<"|">>
                                 \o urls[i] \o <<"|">> \o <<"link">>),
                             parent_relative \o <<"/">> \o links_txt
                                 \o <<"#">> \o Sha256Hex16(urls[i]),
                             "link", urls[i])]]

\* the body of the loop over the children of one folder
TraverseItem(t, item, drive_id, parent_relative) ==
    IF Lower(item.name) \in EXCLUDED_FILENAMES
    THEN Bump(t, "skipped_excluded")
    ELSE IF validate_item_in_scope(item, drive_id) # "ok"
    THEN Bump(t, "scope_violations")
    ELSE LET item_relative == _build_relative_path(item, drive_id)
         IN  IF item.kind = "folder"
             THEN LET scanned == Bump(t, "folders_scanned")
                      done ==
                          IF is_leaf_container(item_relative, TRUE, item.name)
                          THEN ProcessContainer(scanned, item, item_relative,
                                                "folder")
                          ELSE scanned
                  IN  [done EXCEPT !.recursed = @ \cup {item.id}]
             ELSE IF item.kind = "file"
             THEN LET scanned == Bump(t, "files_scanned") IN
                  IF ~is_leaf_container(parent_relative, FALSE, item.name)
                  THEN Bump(scanned, "skipped_depth")
                  ELSE IF Lower(item.name) = links_txt
                  THEN _process_links_file(scanned, item, parent_relative)
                  ELSE ProcessContainer(scanned, item, item_relative, "file")
             ELSE t

RECURSIVE TraverseChildren(_, _, _, _, _)
TraverseChildren(t, children, i, drive_id, parent_relative) ==
    IF i > Len(children) THEN t
    ELSE TraverseChildren(
             TraverseItem(t, children[i], drive_id, parent_relative),
             children, i + 1, drive_id, parent_relative)

\* ------------------------------------------- what Graph can hand the sync
MaxChildren == 2

DriveA == <<"A">>
DriveAB == <<"A", "B">>
AuthorizedDrives == {DriveA, DriveAB}

RootPathOf(drive_id, mid, tail) ==
    <<"/", "d", "r", "i", "v", "e", "s", "/">> \o drive_id \o mid \o tail

ItemPaths ==
    {<<>>} \cup
    {RootPathOf(d, mid, tail) :
        d \in AuthorizedDrives,
        mid \in {<<"/", "r", "o", "o", "t", ":">>,
                 <<"/", "r", "o", "o", "t">>,
                 <<"/", "i", "t", "e", "m", "s">>},
        tail \in {<<>>, <<"/", "H", "R">>}}

ParentReferences ==
    {drive \cup path :
        drive \in {{}} \cup {{<<"driveId", d>>} :
                                d \in {<<>>} \cup AuthorizedDrives},
        path \in {{}} \cup {{<<"path", p>>} : p \in ItemPaths}}

\* status and text: what GET .../content answers for the item
GraphItem(id, name, kind, hasRef, ref) ==
    [id |-> id, name |-> name, kind |-> kind, hasRef |-> hasRef,
     parentReference |-> ref, status |-> 200, text |-> <<>>]

\* every shape of parentReference, on a plain file
ValidateItems ==
    {GraphItem(1, guide_pdf, "file", TRUE, ref) : ref \in ParentReferences}
    \cup {GraphItem(1, guide_pdf, "file", FALSE, {})}

\* children of a folder of the library: files and folders, some with an
\* excluded name, some without a parentReference; a links.txt whose
\* download fails, or succeeds with a URL or with a comment only
RefUnder(parent_relative) ==
    {<<"driveId", DriveA>>,
     <<"path", ExpectedPrefix(DriveA) \o
               (IF parent_relative = <<>> THEN <<>>
                ELSE <<"/">> \o parent_relative)>>}

LinkTexts == {HttpsScheme \o <<"a">>, <<"#">> \o HttpsScheme \o <<"f">>}

ChildShapes ==
    {[name |-> name, kind |-> kind, hasRef |-> hasRef, status |-> 200,
      text |-> <<>>] :
        name \in {guide_pdf, desktop_ini, instructions_txt},
        kind \in {"file", "folder"}, hasRef \in BOOLEAN}
    \cup
    {[name |-> links_txt, kind |-> "file", hasRef |-> TRUE,
      status |-> status, text |-> text] :
        status \in {200, 404}, text \in LinkTexts}

Listings ==
    UNION {[1..n -> ChildShapes] : n \in 0..MaxChildren}

ChildrenOf(listing, parent_relative) ==
    [i \in 1..Len(listing) |->
        [GraphItem(i, listing[i].name, listing[i].kind, listing[i].hasRef,
                   IF listing[i].hasRef THEN RefUnder(parent_relative)
                   ELSE {})
         EXCEPT !.status = listing[i].status, !.text = listing[i].text]]

\* ------------------------------------------------------------- the steps
\* one call of the guard
Validate ==
    /\ sp = SpIdle
    /\ \E item \in ValidateItems, drive_id \in AuthorizedDrives :
          sp' = [pc |-> "validated", item |-> item, drive_id |-> drive_id,
                 error |-> validate_item_in_scope(item, drive_id)]
    /\ UNCHANGED <<db, txn, checkedOut, clock, tree, fr, zr, hist, sv, fn>>

\* _traverse_folder on the library root or on an L3 folder: the listing
\* is fetched and its children are walked in order
TraverseFolder ==
    /\ sp = SpIdle
    /\ \E listing \in Listings, drive_id \in AuthorizedDrives,
          parent_relative \in {<<>>, L3Path} :
          LET children == ChildrenOf(listing, parent_relative)
          IN  sp' = [pc |-> "returned", children |-> children,
                     drive_id |-> drive_id,
                     parent_relative |-> parent_relative,
                     result |-> TraverseChildren(Traversal0, children, 1,
                                                 drive_id, parent_relative)]
    /\ UNCHANGED <<db, txn, checkedOut, clock, tree, fr, zr, hist, sv, fn>>

\* the caller takes the outcome
ScopeReturn ==
    /\ sp # SpIdle
    /\ sp' = SpIdle
    /\ UNCHANGED <<db, txn, checkedOut, clock, tree, fr, zr, hist, sv, fn>>

InitScope == InitFn

NextScope ==
    \/ Validate
    \/ TraverseFolder
    \/ ScopeReturn

SpecScope == InitScope /\ [][NextScope]_vars

\* the item lies in the authorised drive under its root, in the words of
\* the contract
InScope(item, D) ==
    /\ item.hasRef
    /\ \E p \in item.parentReference : p[1] = "driveId" /\ p[2] = D
    /\ \E p \in item.parentReference :
          /\ p[1] = "path"
          /\ \E n \in 0..Len(p[2]) : SubSeq(p[2], 1, n) = ExpectedPrefix(D)

\* C5: validate_item_in_scope(item, D) raises exactly when the
\* parentReference is missing or empty, the driveId is missing or not D, or
\* the path is missing or does not start with /drives/D/root: ; a call
\* changes nothing but its own outcome.
C5_GuardRaisesExactly ==
    sp.pc = "validated" =>
       ((sp.error # "ok") <=> ~InScope(sp.item, sp.drive_id))

\* an item of another drive whose path is under the authorised root
C5_Witness ==
    /\ sp.pc = "validated"
    /\ sp.error = "unauthorized drive"
    /\ \E p \in sp.item.parentReference :
          p[1] = "path" /\ StartsWith(p[2], ExpectedPrefix(sp.drive_id))

\* C4: a listed item that fails the guard is counted once in
\* scope_violations, is neither upserted nor recursed into, and its siblings
\* are processed.
C4_ViolationsCountedSiblingsProcessed ==
    sp.pc = "returned" =>
       LET failing == {i \in DOMAIN sp.children :
                          ~InScope(sp.children[i], sp.drive_id)}
           passing == DOMAIN sp.children \ failing
       IN  /\ sp.result.stats.scope_violations = Cardinality(failing)
           /\ sp.result.upserted \cap failing = {}
           /\ sp.result.recursed \cap failing = {}
           /\ sp.result.stats.folders_scanned + sp.result.stats.files_scanned
                 + sp.result.stats.skipped_excluded = Cardinality(passing)

\* =========================================================================
\* Claims about links.txt (specification SpecFn)
\* =========================================================================
\* a valid URL line in the words of the contract: not blank, not a comment,
\* starting with http:// or https://
IsValidUrlLine(raw_line) ==
    LET line == StripWs(raw_line)
    IN  /\ line # <<>>
        /\ Head(line) # "#"
        /\ \E scheme \in {HttpScheme, HttpsScheme} :
              /\ Len(line) >= Len(scheme)
              /\ \A i \in 1..Len(scheme) : line[i] = scheme[i]

\* C11: a links.txt under an L3 folder yields exactly one row of type link
\* per valid URL line (not blank, not a comment, starting with http:// or
\* https://), with resource_count 1, valid_link_count 1, is_placeholder 0 and
\* web_url the URL; no row for links.txt itself, and no row at all when no
\* line is valid.
C11_OneRowPerValidUrl ==
    fn.op = "expand_links" =>
       LET valid == SelectSeq(fn.lines, IsValidUrlLine)
       IN  /\ Len(fn.rows) = Len(valid)
           /\ \A i \in 1..Len(fn.rows) :
                 /\ i <= Len(valid) => fn.rows[i].web_url = StripWs(valid[i])
                 /\ fn.rows[i].resource_type = "link"
                 /\ fn.rows[i].resource_count = 1
                 /\ fn.rows[i].valid_link_count = 1
                 /\ fn.rows[i].is_placeholder = 0

\* =========================================================================
\* Claims about the SharePoint traversal (specification SpecScope)
\* =========================================================================
\* C12: no file whose lower-cased name is in EXCLUDED_FILENAMES of
\* container_service (desktop.ini, .ds_store, thumbs.db, instructions.txt,
\* instructions.pdf) is upserted by a traversal, whatever the folder it
\* lies in.
C12_ExcludedNeverUpserted ==
    sp.pc = "returned" =>
       \A i \in sp.result.upserted :
          sp.children[i].kind = "file" =>
             Lower(sp.children[i].name)
                \notin container_service_EXCLUDED_FILENAMES

\* =========================================================================
\* Dashboard and Inventory totals (specification SpecTotals)
\* =========================================================================
RECURSIVE SumResourceCount(_, _)
\* sum(c.get('resource_count', 0) for c in rows)
SumResourceCount(table, keys) ==
    IF keys = {} THEN 0
    ELSE LET k == CHOOSE j \in keys : TRUE
         IN  table[k]["resource_count"] + SumResourceCount(table, keys \ {k})

\* get_active_containers(): the rows of its SELECT
get_active_containers(table) ==
    {k \in DOMAIN table :
        table[k]["is_archived"] = 0 /\ table[k]["is_placeholder"] = 0}

\* is_resource(c) of dashboard_view
is_resource(c) == c["resource_type"] \in {"file", "link"}

\* dashboard_view: total_resources
DashboardTotal(table) ==
    SumResourceCount(table,
        {k \in get_active_containers(table) : is_resource(table[k])})

\* the query without the resource_type condition
get_active_resources_filtered_AnyType(table, primary_department, training_type, sales_stage) ==
    {k \in DOMAIN table :
        /\ table[k]["is_archived"] = 0
        /\ table[k]["is_placeholder"] = 0
        /\ primary_department # Null =>
              table[k]["primary_department"] = primary_department
        /\ training_type # Null => table[k]["training_type"] = training_type
        /\ sales_stage = "untagged" => table[k]["sales_stage"] = Null
        /\ sales_stage \notin {Null, "untagged"} =>
              table[k]["sales_stage"] = sales_stage}

\* get_active_resources_filtered(): the rows of its SELECT; a parameter
\* that is None (Null here) adds no condition
get_active_resources_filtered(table, primary_department, training_type, sales_stage) ==
    {k \in DOMAIN table :
        /\ table[k]["is_archived"] = 0
        /\ table[k]["is_placeholder"] = 0
        /\ table[k]["resource_type"] \in {"file", "link"}
        /\ primary_department # Null =>
              table[k]["primary_department"] = primary_department
        /\ training_type # Null => table[k]["training_type"] = training_type
        /\ sales_stage = "untagged" => table[k]["sales_stage"] = Null
        /\ sales_stage \notin {Null, "untagged"} =>
              table[k]["sales_stage"] = sales_stage}

\* a GET parameter: the empty string stands for no filter
FilterArg(param) == IF param = "" THEN Null ELSE param

\* inventory_view: total_resources for the GET parameters
InventoryTotal(table, department, training_type, sales_stage) ==
    SumResourceCount(table,
        get_active_resources_filtered(table, FilterArg(department),
            FilterArg(training_type), FilterArg(sales_stage)))

\* a row of any kind: a file, a link or a folder, a placeholder or not;
\* its resource_count tells the rows apart in a sum
AnyRow(k, resource_type, is_placeholder, now) ==
    [FileRow(k, 0, now, "zip") EXCEPT
        !["resource_type"] = resource_type,
        !["is_placeholder"] = is_placeholder,
        !["resource_count"] = k]

\* upsert_resource(...) as one step
TotalsUpsert ==
    /\ fn = FnIdle
    /\ \E k \in Keys, resource_type \in {"file", "link", "folder"},
          is_placeholder \in {0, 1} :
          LET values == AnyRow(k, resource_type, is_placeholder, clock) IN
          db' = IF k \in DOMAIN db
                THEN [db EXCEPT ![k] = UpsertResource_Update(db[k], values)]
                ELSE [j \in DOMAIN db \cup {k} |->
                        IF j = k THEN UpsertResource_Insert(values)
                        ELSE db[j]]
    /\ UNCHANGED <<txn, checkedOut, clock, tree, fr, zr, hist, sv, sp, fn>>

\* archive_stale_resources(t) for a t later than every last_seen: each
\* active row is archived
TotalsArchive ==
    /\ fn = FnIdle
    /\ db' = archive_stale_resources(db, clock + 1)
    /\ UNCHANGED <<txn, checkedOut, clock, tree, fr, zr, hist, sv, sp, fn>>

\* GET of the dashboard page
DashboardView ==
    /\ fn = FnIdle
    /\ fn' = [op |-> "dashboard", total_resources |-> DashboardTotal(db)]
    /\ UNCHANGED <<db, txn, checkedOut, clock, tree, fr, zr, hist, sv, sp>>

\* GET of the inventory page
InventoryView ==
    /\ fn = FnIdle
    /\ \E department \in {"", "HR"}, sales_stage \in {"", "untagged"} :
          fn' = [op |-> "inventory", department |-> department,
                 sales_stage |-> sales_stage,
                 total_resources |->
                     InventoryTotal(db, department, "", sales_stage)]
    /\ UNCHANGED <<db, txn, checkedOut, clock, tree, fr, zr, hist, sv, sp>>

NextTotals ==
    \/ TotalsUpsert
    \/ TotalsArchive
    \/ DashboardView
    \/ InventoryView
    \/ FnReturn

SpecTotals == InitFn /\ [][NextTotals]_vars

\* the rows both pages are meant to count
CountedRows ==
    {k \in DOMAIN db :
        /\ db[k]["is_archived"] = 0
        /\ db[k]["is_placeholder"] = 0
        /\ db[k]["resource_type"] # "folder"}

\* C13: whatever the table holds, a page shows the total the other page
\* would show for it (the Inventory page without filters): the sum of
\* resource_count over the active, non-placeholder file and link rows;
\* archived rows and placeholders add nothing to either.
C13_TotalsReconcile ==
    /\ fn.op = "dashboard" =>
          /\ fn.total_resources = InventoryTotal(db, "", "", "")
          /\ fn.total_resources = SumResourceCount(db, CountedRows)
    /\ (fn.op = "inventory" /\ fn.department = "" /\ fn.sales_stage = "") =>
          /\ fn.total_resources = DashboardTotal(db)
          /\ fn.total_resources = SumResourceCount(db, CountedRows)

\* the Inventory page shows a total while the table holds a counted row
\* next to an archived row, a placeholder or a folder
C13_Witness ==
    /\ fn.op = "inventory" /\ fn.department = "" /\ fn.sales_stage = ""
    /\ fn.total_resources > 0
    /\ \E k \in DOMAIN db :
          \/ db[k]["is_archived"] = 1
          \/ db[k]["is_placeholder"] = 1
          \/ db[k]["resource_type"] = "folder"

\* =========================================================================
\* sync_from_sharepoint next to import_from_zip (specification SpecSync)
\* =========================================================================
\* what _make_graph_request hands its caller: the JSON of a 200, None for a
\* 403 or 404, or a RuntimeError
GraphRaise == [kind |-> "raise"]
GraphNone == [kind |-> "None"]
GraphJson(fields) == [kind |-> "json", fields |-> fields]

RequiredEnv ==
    {"SHAREPOINT_TENANT_ID", "SHAREPOINT_CLIENT_ID",
     "SHAREPOINT_CLIENT_SECRET"}

\* _validate_env: env is the set of the variables that are set and not empty
_validate_env(env) ==
    IF RequiredEnv \ env # {} THEN Raise("RuntimeError") ELSE Return(env)

\* get_graph_token: result is the set of keys acquire_token_for_client
\* answers with
get_graph_token(env, result) ==
    IF _validate_env(env).exception # "none" THEN _validate_env(env)
    ELSE IF "access_token" \notin result THEN Raise("RuntimeError")
    ELSE Return(<<"token">>)

resolve_site_id(result) ==
    IF result.kind = "raise" THEN Raise("RuntimeError")
    ELSE IF result.kind = "None" \/ result.fields = {}
    THEN Raise("RuntimeError")
    ELSE IF ~DictHas(result.fields, "id")
            \/ ~Truthy(DictGet(result.fields, "id"))
    THEN Raise("RuntimeError")
    ELSE Return(DictGet(result.fields, "id"))

SHAREPOINT_LIBRARY_NAME == <<"Payroc Training Catalogue">>

\* resolve_drive_id that takes the first drive of that name
resolve_drive_id_FirstMatch(result) ==
    IF result.kind = "raise" THEN Raise("RuntimeError")
    ELSE IF result.kind = "None" \/ result.fields = {}
            \/ ~DictHas(result.fields, "value")
    THEN Raise("RuntimeError")
    ELSE LET drives == DictGet(result.fields, "value")
             matching_drives ==
                 SelectSeq(drives,
                           LAMBDA d : d.name = SHAREPOINT_LIBRARY_NAME)
         IN  IF Len(matching_drives) = 0 THEN Raise("RuntimeError")
             ELSE Return(matching_drives[1].id)

resolve_drive_id(result) ==
    IF result.kind = "raise" THEN Raise("RuntimeError")
    ELSE IF result.kind = "None" \/ result.fields = {}
            \/ ~DictHas(result.fields, "value")
    THEN Raise("RuntimeError")
    ELSE LET drives == DictGet(result.fields, "value")
             matching_drives ==
                 SelectSeq(drives,
                           LAMBDA d : d.name = SHAREPOINT_LIBRARY_NAME)
         IN  IF Len(matching_drives) = 0 THEN Raise("RuntimeError")
             ELSE IF Len(matching_drives) > 1 THEN Raise("RuntimeError")
             ELSE Return(matching_drives[1].id)

\* Phase 3 of sync_from_sharepoint: token, site, drive, in that order
ResolveScope(input) ==
    LET token == get_graph_token(input.env, input.token)
        site == resolve_site_id(input.site)
        drive == resolve_drive_id(input.drives)
    IN  IF token.exception # "none" THEN token
        ELSE IF site.exception # "none" THEN site
        ELSE drive

\* ------------------------------------------- what a run can be started in
Library == [name |-> SHAREPOINT_LIBRARY_NAME, id |-> DriveA]
Documents == [name |-> <<"Documents">>, id |-> DriveAB]

GoodInput ==
    [env |-> RequiredEnv,
     token |-> {"access_token"},
     site |-> GraphJson({<<"id", <<"site">>>>}),
     drives |-> GraphJson({<<"value", <<Documents, Library>>>>})]

\* the good environment, and the ones that differ from it in one answer
SyncInputs ==
    {GoodInput}
    \cup {[GoodInput EXCEPT !.env = RequiredEnv \ {v}] : v \in RequiredEnv}
    \cup {[GoodInput EXCEPT !.token = {"error", "error_description"}]}
    \cup {[GoodInput EXCEPT !.site = r] :
             r \in {GraphRaise, GraphNone, GraphJson({<<"name", <<"s">>>>})}}
    \cup {[GoodInput EXCEPT !.drives = r] :
             r \in {GraphRaise, GraphNone,
                    GraphJson({<<"error", <<"e">>>>}),
                    GraphJson({<<"value", <<Documents>>>>}),
                    GraphJson({<<"value", <<Library, Library>>>>})}}

\* ------------------------------------------------------------ the library
\* The library holds one L3 folder.  The resource behind key LinkKey is the
\* URL of the links.txt of that folder, the resource behind any other key
\* is a file of the folder; tree says which of them are there.
LinkKey == 1

FileName(k) == <<"f", ToString(k)>>
LinkUrl == HttpsScheme \o <<"a">>

RECURSIVE InOrder(_)
\* the keys of a set in ascending order, the order Graph lists them in
InOrder(keys) ==
    IF keys = {} THEN <<>>
    ELSE LET k == CHOOSE j \in keys : \A i \in keys : j <= i
         IN  <<k>> \o InOrder(keys \ {k})

\* the children Graph lists for the L3 folder; download is the status of
\* GET .../content for the links.txt
LibraryChildren(library, download) ==
    LET present == {k \in Keys : library[k] # Absent}
        keys == InOrder(present)
    IN  [i \in 1..Len(keys) |->
            IF keys[i] = LinkKey
            THEN [GraphItem(LinkKey, links_txt, "file", TRUE,
                            RefUnder(L3Path))
                  EXCEPT !.status = download, !.text = LinkUrl]
            ELSE GraphItem(keys[i], FileName(keys[i]), "file", TRUE,
                           RefUnder(L3Path))]

\* the row one upsert_container call of the run writes
SyncRow(call, sync_started_at) ==
    [FileRow(call.id, 0, sync_started_at, call.source) EXCEPT
        !["resource_type"] = call.container_type,
        !["web_url"] = IF call.web_url = None THEN Null ELSE "url",
        !["drive_item_id"] =
            IF call.container_type = "link" THEN Null
            ELSE "item" \o ToString(call.id)]

SyncIdle(runs, outcome) ==
    [pc |-> "idle", sync_started_at |-> 0, active_before |-> 0,
     input |-> GoodInput, exception |-> "none", outcome |-> outcome,
     drive_id |-> None, listing |-> "none", download |-> 0,
     calls |-> <<>>, upserted |-> {}, archived |-> {}, recorded |-> FALSE,
     sync_runs |-> runs]

\* a row an earlier import_from_folder left behind
FolderRowOf(k) ==
    InsertRow([FileRow(k, 0, 0, "folder") EXCEPT
                  !["resource_type"] = IF k = LinkKey THEN "link" ELSE "file"])

\* -------------------------------------------------------------- the steps
\* Phases 1 and 2: sync_started_at is taken and the active rows are counted
SyncStart ==
    /\ sp.pc = "idle"
    /\ clock < MaxClock
    /\ clock' = clock + 1
    /\ \E input \in SyncInputs :
          sp' = [SyncIdle(sp.sync_runs, "running") EXCEPT
                    !.pc = "started", !.sync_started_at = clock',
                    !.active_before = Cardinality(Active(db)),
                    !.input = input]
    /\ UNCHANGED <<db, txn, checkedOut, tree, fr, zr, hist, sv, fn>>

\* Phase 3: token, site and drive; an exception leaves sync_from_sharepoint
SyncResolve ==
    /\ sp.pc = "started"
    /\ LET r == ResolveScope(sp.input) IN
          sp' = IF r.exception # "none"
                THEN [sp EXCEPT !.pc = "failed", !.exception = r.exception,
                                !.outcome = "raised"]
                ELSE [sp EXCEPT !.pc = "resolved", !.drive_id = r.value]
    /\ UNCHANGED <<db, txn, checkedOut, clock, tree, fr, zr, hist, sv, fn>>

\* Phase 4, the requests: the folders are listed from the root down to the
\* L3 folder.  A listing that _make_graph_request answers with None (403,
\* 404) ends the loop over that folder, one that raises ends the run; the
\* links.txt is downloaded.  calls holds the upserts still to be made.
SyncTraverse ==
    /\ sp.pc = "resolved"
    /\ \E listing \in {"json", "None", "raise"}, download \in {200, 404} :
          /\ download = 404 => (listing = "json" /\ tree[LinkKey] # Absent)
          /\ sp' =
               IF listing = "raise"
               THEN [sp EXCEPT !.pc = "failed", !.listing = listing,
                               !.exception = "RuntimeError",
                               !.outcome = "raised"]
               ELSE LET children ==
                            IF listing = "None" THEN <<>>
                            ELSE LibraryChildren(tree, download)
                        result == TraverseChildren(Traversal0, children, 1,
                                                   sp.drive_id, L3Path)
                    IN  [sp EXCEPT !.pc = "traversing",
                                   !.listing = listing,
                                   !.download = download,
                                   !.calls = result.calls]
    /\ UNCHANGED <<db, txn, checkedOut, clock, tree, fr, zr, hist, sv, fn>>

\* Phase 4, one upsert_container call, committed on its own
SyncUpsert ==
    /\ sp.pc = "traversing"
    /\ sp.calls # <<>>
    /\ LET call == Head(sp.calls) IN
          /\ db' = upsert_container(db, SyncRow(call, sp.sync_started_at))
          /\ sp' = [sp EXCEPT !.calls = Tail(@),
                              !.upserted = @ \cup {call.id}]
    /\ hist' = Quiet(hist)
    /\ UNCHANGED <<txn, checkedOut, clock, tree, fr, zr, sv, fn>>

\* Phase 4, a statement raises (no connection, a failed statement): the
\* exception leaves sync_from_sharepoint, what was upserted stays
SyncRaise ==
    /\ sp.pc = "traversing"
    /\ sp.calls # <<>>
    /\ sp' = [sp EXCEPT !.pc = "failed", !.exception = "Exception",
                        !.outcome = "raised"]
    /\ UNCHANGED <<db, txn, checkedOut, clock, tree, fr, zr, hist, sv, fn>>

\* Phase 5: archive_stale_resources(sync_started_at), committed on its own
SyncArchive ==
    /\ sp.pc = "traversing"
    /\ sp.calls = <<>>
    /\ db' = archive_stale_resources(db, sp.sync_started_at)
    /\ sp' = [sp EXCEPT !.pc = "archived",
                        !.archived = StaleKeys(db, sp.sync_started_at)]
    /\ hist' = Quiet(hist)
    /\ UNCHANGED <<txn, checkedOut, clock, tree, fr, zr, sv, fn>>

\* Phases 6 and 7: record_sync_run
SyncRecord ==
    /\ sp.pc = "archived"
    /\ sp' = [sp EXCEPT !.pc = "done", !.recorded = TRUE,
                        !.sync_runs = @ + 1, !.outcome = "returned"]
    /\ UNCHANGED <<db, txn, checkedOut, clock, tree, fr, zr, hist, sv, fn>>

\* sync_sharepoint_view shows the outcome
SyncReturn ==
    /\ sp.pc \in {"failed", "done"}
    /\ sp' = SyncIdle(sp.sync_runs, "none")
    /\ UNCHANGED <<db, txn, checkedOut, clock, tree, fr, zr, hist, sv, fn>>

\* import_from_zip reaches a file of the archive
SyncZipSelect ==
    /\ ZipSelect
    /\ zr'.key # LinkKey

InitSync ==
    /\ \E present \in SUBSET Keys : db = [k \in present |-> FolderRowOf(k)]
    /\ txn = EmptyTable
    /\ checkedOut = 0
    /\ clock = 0
    /\ tree \in [Keys -> {Absent, 0}]
    /\ fr = FrIdle("none")
    /\ zr = ZrIdle("none")
    /\ hist = HistInit
    /\ sv = SvIdle
    /\ sp = SyncIdle(0, "none")
    /\ fn = FnIdle

NextSync ==
    \/ SyncStart
    \/ SyncResolve
    \/ SyncTraverse
    \/ SyncUpsert
    \/ SyncRaise
    \/ SyncArchive
    \/ SyncRecord
    \/ SyncReturn
    \/ SyncZipSelect
    \/ ZipWrite

SpecSync == InitSync /\ [][NextSync]_vars

\* =========================================================================
\* Claims about sync_from_sharepoint (specification SpecSync)
\* =========================================================================
\* the drives of the answer that carry the library's name
NamedLibrary(answer) ==
    {i \in DOMAIN answer : answer[i].name = <<"Payroc Training Catalogue">>}

\* an environment variable is missing, no token is issued, the site is not
\* resolved, or the drive is not resolved
ResolutionFails(input) ==
    \/ \E v \in {"SHAREPOINT_TENANT_ID", "SHAREPOINT_CLIENT_ID",
                  "SHAREPOINT_CLIENT_SECRET"} : v \notin input.env
    \/ "access_token" \notin input.token
    \/ input.site.kind # "json"
    \/ ~\E p \in input.site.fields : p[1] = "id" /\ p[2] # <<>>
    \/ input.drives.kind # "json"
    \/ ~\E p \in input.drives.fields :
           p[1] = "value" /\ Cardinality(NamedLibrary(p[2])) = 1

C15_UpsertedNotArchived ==
    /\ sp.pc \in {"archived", "done"} =>
          /\ sp.calls = <<>>
          /\ sp.upserted \cap sp.archived = {}
    /\ sp.recorded => sp.pc = "done"

\* C19: the run archives a resource only if it is absent from the library:
\* a listing answered with 403 or 404, or a links.txt whose download
\* fails, does not make the run archive what is still there.
C19_ArchivedOnlyIfAbsent ==
    sp.pc \in {"archived", "done"} =>
       \A k \in sp.archived : tree[k] = Absent

\* C20: the archival of a run takes every active row last seen before the
\* run started, whatever import wrote it; a write of import_from_zip
\* archives no row.
C20_StaleArchivalGlobal ==
    [][/\ (sp.pc = "traversing" /\ sp'.pc = "archived") =>
             \A k \in DOMAIN db :
                (db[k]["is_archived"] = 0
                   /\ db[k]["last_seen"] < sp.sync_started_at)
                => db'[k]["is_archived"] = 1
       /\ (zr.pc = "selected" /\ zr'.pc = "idle") =>
             \A k \in DOMAIN db :
                db[k]["is_archived"] = 0 => db'[k]["is_archived"] = 0]_vars

\* the run has archived a row of import_from_zip and a row of
\* import_from_folder
C20_Witness ==
    /\ sp.pc = "archived"
    /\ \E j, k \in sp.archived :
          db[j]["source"] = "zip" /\ db[k]["source"] = "folder"

\* =========================================================================
\* Claims about compute_file_count (specification SpecFn)
\* =========================================================================
\* the number a count stands for: the value itself when it is a number or
\* the decimal numeral of one, 0 when it is missing, NULL or anything else;
\* never less than 0
ClampedCount(resource, key) ==
    LET held == {p \in resource : p[1] = key}
        v == (CHOOSE p \in held : TRUE)[2]
        numeral == IF v.s # <<>> /\ Head(v.s) = "-" THEN Tail(v.s) ELSE v.s
        number == IF v.t = "int" THEN v.n
                  ELSE IF v.s # <<>> /\ Head(v.s) = "-"
                  THEN 0 - DecimalValue(numeral)
                  ELSE DecimalValue(numeral)
    IN  IF held = {} THEN 0
        ELSE IF v.t = "None" THEN 0
        ELSE IF v.t = "str" /\ ~IsDigits(numeral) THEN 0
        ELSE IF number < 0 THEN 0
        ELSE number

TypeIs(resource, names) ==
    \E p \in resource : p[1] = "resource_type" /\ p[2].t = "str"
                            /\ p[2].s \in names

\* C16: compute_file_count answers 1 for a file, the clamped
\* valid_link_count for a link or links row, the clamped contents_count for
\* a folder, 0 for any other type, and never a negative number.
C16_FileCount ==
    fn.op = "compute_file_count" =>
       /\ fn.result >= 0
       /\ TypeIs(fn.resource, {<<"file">>}) => fn.result = 1
       /\ TypeIs(fn.resource, {<<"link">>, <<"links">>}) =>
             fn.result = ClampedCount(fn.resource, "valid_link_count")
       /\ TypeIs(fn.resource, {<<"folder">>}) =>
             fn.result = ClampedCount(fn.resource, "contents_count")
       /\ ~TypeIs(fn.resource, {<<"file">>, <<"link">>, <<"links">>,
                                <<"folder">>}) => fn.result = 0

\* =========================================================================
\* Two batch saves at once (specification SpecSaves)
\* =========================================================================
\* the two browser sessions that post to save_scrub_batch_view
Sessions == {"a", "b"}

\* a request that submits the same fields for each of its dirty keys
RequestOf(keys, i) ==
    LET ordered == InOrder(keys) IN
    [n \in 1..Len(ordered) |->
        [key |-> ordered[n], status |-> i.status, audience |-> i.audience,
         stage |-> i.stage, notes |-> i.notes]]

\* the fields a session submits: valid ones, with and without blanks, and
\* a status the validation refuses
SessionInputs ==
    ValidInputs \cup
    {[status |-> "Modify", audience |-> "POS",
      stage |-> "stage_2_appointment", notes |-> "Reword"],
     [status |-> "PASS", audience |-> "", stage |-> "", notes |-> ""]}

SessionRequests ==
    {RequestOf(keys, i) :
        keys \in {ks \in SUBSET Keys : ks # {} /\ Cardinality(ks) <= MaxBatch},
        i \in SessionInputs}

SessionIdle == [pc |-> "idle", request |-> <<>>, idx |-> 0, step |-> "none"]

\* last_writer: the session whose UPDATE of the row was committed last
SavesInit ==
    [session |-> [s \in Sessions |-> SessionIdle],
     last_writer |-> [k \in Keys |-> "none"]]

\* Phases 1 and 2 of one session, then get_connection()
SessionBegin(s) ==
    /\ sv.session[s].pc = "idle"
    /\ \E request \in SessionRequests :
          IF HasErrors(request)
          THEN /\ sv' = [sv EXCEPT !.session[s] =
                           [SessionIdle EXCEPT !.pc = "rejected",
                                               !.request = request]]
               /\ checkedOut' = checkedOut
          ELSE /\ sv' = [sv EXCEPT !.session[s] =
                           [pc |-> "writing", request |-> request,
                            idx |-> 1, step |-> "scrub"]]
               /\ checkedOut' = checkedOut + 1
    /\ UNCHANGED <<db, txn, clock, tree, fr, zr, hist, sp, fn>>

\* Phase 3 of one session, update_resource_scrub of its current row
SessionWriteScrub(s) ==
    /\ sv.session[s].pc = "writing"
    /\ sv.session[s].step = "scrub"
    /\ LET input == sv.session[s].request[sv.session[s].idx] IN
          /\ db' = WriteRow(db, input.key,
                      update_resource_scrub(db[input.key],
                          DecisionOf(input.status), "", OrNone(input.notes),
                          OrNone(input.audience), clock))
          /\ sv' = [sv EXCEPT !.session[s].step = "stage",
                              !.last_writer[input.key] = s]
    /\ UNCHANGED <<txn, checkedOut, clock, tree, fr, zr, hist, sp, fn>>

\* Phase 3 of one session, update_sales_stage of its current row
SessionWriteStage(s) ==
    /\ sv.session[s].pc = "writing"
    /\ sv.session[s].step = "stage"
    /\ LET input == sv.session[s].request[sv.session[s].idx]
           more == sv.session[s].idx < Len(sv.session[s].request)
       IN
          /\ db' = WriteRow(db, input.key,
                      update_sales_stage(db[input.key], OrNone(input.stage)))
          /\ sv' = [sv EXCEPT
                       !.session[s].idx = IF more THEN @ + 1 ELSE @,
                       !.session[s].step = IF more THEN "scrub" ELSE "commit",
                       !.last_writer[input.key] = s]
    /\ UNCHANGED <<txn, checkedOut, clock, tree, fr, zr, hist, sp, fn>>

\* conn.commit() and the success message of one session
SessionCommit(s) ==
    /\ sv.session[s].pc = "writing"
    /\ sv.session[s].step = "commit"
    /\ sv' = [sv EXCEPT !.session[s].pc = "saved"]
    /\ UNCHANGED <<db, txn, checkedOut, clock, tree, fr, zr, hist, sp, fn>>

InitSaves ==
    /\ db = [k \in Keys |-> UpsertResource_Insert(FileRow(k, 0, 1, "zip"))]
    /\ txn = EmptyTable
    /\ checkedOut = 0
    /\ clock = 1
    /\ tree = [k \in Keys |-> 0]
    /\ fr = FrIdle("none")
    /\ zr = ZrIdle("none")
    /\ hist = HistInit
    /\ sv = SavesInit
    /\ sp = SpIdle
    /\ fn = FnIdle

NextSaves ==
    \/ \E s \in Sessions : SessionBegin(s)
    \/ \E s \in Sessions : SessionWriteScrub(s)
    \/ \E s \in Sessions : SessionWriteStage(s)
    \/ \E s \in Sessions : SessionCommit(s)

SpecSaves == InitSaves /\ [][NextSaves]_vars

\* the row holds the four fields as the request submitted them
HoldsFieldsOf(row, input) ==
    /\ row["scrub_status"] =
          (IF input.status = "Unreviewed" THEN "not_reviewed"
           ELSE input.status)
    /\ row["scrub_notes"] = (IF input.notes = "" THEN Null ELSE input.notes)
    /\ row["audience"] = (IF input.audience = "" THEN Null ELSE input.audience)
    /\ row["sales_stage"] = (IF input.stage = "" THEN Null ELSE input.stage)

\* C17: of two batch saves that run at once neither is rejected for the
\* other's sake, and once both are over every row they wrote holds the
\* scrub_status, scrub_notes, audience and sales_stage of the request that
\* wrote it last, not a mixture of the two.
C17_LastWriteWins ==
    /\ \A s \in Sessions :
          sv.session[s].pc = "rejected" => HasErrors(sv.session[s].request)
    /\ (\A s \in Sessions : sv.session[s].pc \in {"saved", "rejected"}) =>
          \A k \in Keys :
             sv.last_writer[k] # "none" =>
                \E n \in DOMAIN sv.session[sv.last_writer[k]].request :
                   LET input == sv.session[sv.last_writer[k]].request[n] IN
                   input.key = k /\ HoldsFieldsOf(db[k], input)

\* =========================================================================
\* _make_graph_request (specification SpecGraph)
\* =========================================================================
DefaultMaxRetries == 5
InitialBackoff == 3
BackoffCap == 60

\* a backoff that doubles without a cap
NextBackoff_NoCap(backoff_seconds) == backoff_seconds * 2

\* min(backoff_seconds * 2, 60)
NextBackoff(backoff_seconds) ==
    IF backoff_seconds * 2 < BackoffCap THEN backoff_seconds * 2
    ELSE BackoffCap

\* what one requests.get can end in: a response with a status (a 429 with
\* or without a Retry-After header, in seconds or as an HTTP date), a
\* timeout, or another RequestException
NoHeader == PyNone
Responses ==
    {[kind |-> "response", status |-> status, retry_after |-> NoHeader] :
        status \in {200, 429, 503, 403, 404, 401, 500}}
    \cup {[kind |-> "response", status |-> 429, retry_after |-> h] :
             h \in {PyStr(<<"1", "2", "0">>), PyStr(<<"W", "e", "d">>)}}
    \cup {[kind |-> "Timeout", status |-> 0, retry_after |-> NoHeader],
          [kind |-> "RequestException", status |-> 0,
           retry_after |-> NoHeader]}

\* the local variables of a call before its first attempt
GraphRequest0(max_retries) ==
    [pc |-> "loop", max_retries |-> max_retries, retry_count |-> 0,
     backoff_seconds |-> InitialBackoff, attempts |-> 0,
     last |-> [kind |-> "none", status |-> 0, retry_after |-> NoHeader],
     slept |-> 0, was_backoff |-> 0, exception |-> "none",
     result |-> "none"]

\* time.sleep(seconds), retry_count += 1, the backoff doubles
Retry(g, seconds) ==
    [g EXCEPT !.slept = seconds, !.retry_count = @ + 1,
              !.backoff_seconds = NextBackoff(@)]

Ended(g, exception, result) ==
    [g EXCEPT !.pc = IF exception = "none" THEN "returned" ELSE "raised",
              !.exception = exception, !.result = result]

\* one pass of the while loop on the given outcome of requests.get
OnePass(g, r) ==
    LET tried == [g EXCEPT !.attempts = @ + 1, !.last = r,
                           !.was_backoff = g.backoff_seconds]
        retry_after ==
            int(IF r.retry_after = NoHeader THEN PyInt(g.backoff_seconds)
                ELSE r.retry_after)
    IN  IF r.kind = "Timeout" THEN Retry(tried, g.backoff_seconds)
        ELSE IF r.kind = "RequestException"
        THEN Ended(tried, "RuntimeError", "none")
        ELSE IF r.status = 200 THEN Ended(tried, "none", "json")
        ELSE IF r.status = 429
        THEN IF retry_after.exception # "none"
             THEN Ended(tried, retry_after.exception, "none")
             ELSE Retry(tried, retry_after.value)
        ELSE IF r.status = 503 THEN Retry(tried, g.backoff_seconds)
        ELSE IF r.status \in {403, 404} THEN Ended(tried, "none", "None")
        ELSE Ended(tried, "RuntimeError", "none")

\* a caller calls _make_graph_request(url, headers[, max_retries])
GraphCall ==
    /\ sp = SpIdle
    /\ \E max_retries \in {0, 1, 2, DefaultMaxRetries} :
          sp' = GraphRequest0(max_retries)
    /\ UNCHANGED <<db, txn, checkedOut, clock, tree, fr, zr, hist, sv, fn>>

\* the loop condition holds: one requests.get and what follows it
GraphAttempt ==
    /\ sp # SpIdle
    /\ sp.pc = "loop"
    /\ sp.retry_count < sp.max_retries
    /\ \E r \in Responses : sp' = OnePass(sp, r)
    /\ UNCHANGED <<db, txn, checkedOut, clock, tree, fr, zr, hist, sv, fn>>

\* the loop condition fails: raise RuntimeError("... max retries ...")
GraphExhausted ==
    /\ sp # SpIdle
    /\ sp.pc = "loop"
    /\ sp.retry_count >= sp.max_retries
    /\ sp' = Ended(sp, "RuntimeError", "none")
    /\ UNCHANGED <<db, txn, checkedOut, clock, tree, fr, zr, hist, sv, fn>>

\* the caller takes the outcome
GraphReturn ==
    /\ sp # SpIdle
    /\ sp.pc \in {"returned", "raised"}
    /\ sp' = SpIdle
    /\ UNCHANGED <<db, txn, checkedOut, clock, tree, fr, zr, hist, sv, fn>>

NextGraph ==
    \/ GraphCall
    \/ GraphAttempt
    \/ GraphExhausted
    \/ GraphReturn

\* requests.get is given a timeout and time.sleep a number of seconds, so
\* a pass of the loop that has begun ends
SpecGraph == InitFn /\ [][NextGraph]_vars /\ WF_vars(NextGraph)

\* the last attempt ended in a 429, a 503 or a timeout
Retryable(r) ==
    \/ r.kind = "Timeout"
    \/ r.kind = "response" /\ r.status \in {429, 503}

\* what holds of a call at every moment
C18_Bounded ==
    sp # SpIdle =>
       /\ sp.attempts <= sp.max_retries
       /\ sp.backoff_seconds >= 3 /\ sp.backoff_seconds <= 60
       /\ sp.attempts = 0 => sp.backoff_seconds = 3
       /\ ((sp.last.kind = "Timeout" \/ sp.last.status = 503)
             /\ sp.pc = "loop") =>
             /\ sp.slept = sp.was_backoff
             /\ \/ sp.backoff_seconds = 2 * sp.was_backoff
                \/ sp.backoff_seconds = 60 /\ 2 * sp.was_backoff >= 60
       /\ (sp.pc = "loop" /\ sp.attempts > 0) => Retryable(sp.last)
       /\ (sp.attempts > 0 /\ sp.last.status = 200) =>
             sp.pc = "returned" /\ sp.result = "json"
       /\ (sp.attempts > 0 /\ sp.last.status \in {403, 404}) =>
             sp.pc = "returned" /\ sp.result = "None"
       /\ (sp.attempts > 0 /\ ~Retryable(sp.last)
             /\ sp.last.status \notin {200, 403, 404}) =>
             sp.pc = "raised" /\ sp.exception = "RuntimeError"
       /\ (sp.pc = "raised" /\ Retryable(sp.last)
             /\ sp.retry_count = sp.attempts) =>
             sp.exception = "RuntimeError" /\ sp.attempts = sp.max_retries
       /\ (sp.pc # "loop" /\ sp.attempts = 0) =>
             sp.exception = "RuntimeError" /\ sp.max_retries = 0

Guide_pdf == <<"G", "u", "i", "d", "e", ".", "p", "d", "f">>

\* the row import_from_folder appends for a regular file
WalkFileRow(parent_path, filename, sync_started_at) ==
    LET file_relative == IF parent_path # <<>>
                         THEN parent_path \o <<"/">> \o filename
                         ELSE filename
    IN  [resource_key |-> make_resource_key(None, file_relative, <<"file">>),
         relative_path |-> file_relative,
         resource_type |-> "file",
         display_name |-> filename,
         web_url |-> None,
         resource_count |-> 1,
         valid_link_count |-> 0,
         contents_count |-> 0,
         is_placeholder |-> 0,
         first_seen |-> sync_started_at,
         last_seen |-> sync_started_at,
         source |-> "folder",
         is_archived |-> 0]

\* the body of "for filename in filenames": the rows one file name adds
WalkFile(parent_path, filename, content, sync_started_at) ==
    IF Lower(filename) \in container_service_EXCLUDED_FILENAMES THEN <<>>
    ELSE IF ~is_leaf_container(parent_path, FALSE, filename) THEN <<>>
    ELSE IF Lower(filename) = links_txt
    THEN LinkRows(parent_path, content, sync_started_at)
    ELSE <<WalkFileRow(parent_path, filename, sync_started_at)>>

\* the rows list after the file names of one directory, in os.walk's order
RECURSIVE WalkFiles(_, _, _, _)
WalkFiles(parent_path, filenames, content, sync_started_at) ==
    IF filenames = <<>> THEN <<>>
    ELSE WalkFile(parent_path, Head(filenames), content, sync_started_at)
         \o WalkFiles(parent_path, Tail(filenames), content, sync_started_at)

\* the file names a directory can hold next to a links.txt: on a
\* case-sensitive file system guide.pdf and Guide.pdf are two files
WalkNames == <<guide_pdf, Guide_pdf, desktop_ini, instructions_txt>>

RECURSIVE Chosen(_, _, _)
Chosen(names, present, i) ==
    IF i > Len(names) THEN <<>>
    ELSE (IF present[i] THEN <<names[i]>> ELSE <<>>)
         \o Chosen(names, present, i + 1)

\* import_from_folder walks one directory at depth 3 or 4
WalkDirectory ==
    /\ fn = FnIdle
    /\ \E depth \in {L3Depth - 1, L3Depth},
          present \in [1..Len(WalkNames) -> BOOLEAN],
          has_links \in BOOLEAN,
          lines \in LinkFiles :
          LET parent_path == BuildPath(depth, "/", FALSE, FALSE, FALSE)
              filenames == Chosen(WalkNames, present, 1)
                           \o (IF has_links THEN <<links_txt>> ELSE <<>>)
          IN  /\ has_links \/ lines = <<>>
              /\ fn' = [op |-> "walk", depth |-> depth,
                        filenames |-> filenames, lines |-> lines,
                        rows |-> WalkFiles(parent_path, filenames,
                                           Join(lines, <<"\n">>), 1)]
    /\ UNCHANGED <<db, txn, checkedOut, clock, tree, fr, zr, hist, sv, sp>>

NextWalk ==
    \/ WalkDirectory
    \/ FnReturn

SpecWalk == InitFn /\ [][NextWalk]_vars

\* C21: the rows one import_from_folder run collects have pairwise
\* distinct resource_key values, whatever the tree holds - a links.txt
\* that lists one URL twice, files whose names differ only in case - so
\* that the INSERT ... ON CONFLICT statement never gets a key twice.
C21_DistinctKeys ==
    fn.op = "walk" =>
        \A i, j \in 1..Len(fn.rows) :
            i # j => fn.rows[i].resource_key # fn.rows[j].resource_key


\* =========================================================================
\* upsert_resource called by two requests at once (specification SpecUpserts)
\* =========================================================================
Callers == {"a", "b"}

\* a caller between two calls: the key, what the SELECT saw and how the
\* last call ended
CallerIdle == [pc |-> "idle", key |-> 0, existing |-> FALSE, now |-> 0,
               result |-> "none"]

\* first statement: now is taken, then SELECT resource_key ... WHERE
\* resource_key = ?  (execute borrows a connection, runs, returns it)
UpsertSelect(c) ==
    /\ zr[c].pc = "idle"
    /\ clock < MaxClock
    /\ clock' = clock + 1
    /\ \E k \in Keys :
          zr' = [zr EXCEPT ![c] = [pc |-> "selected", key |-> k,
                                   existing |-> k \in DOMAIN db,
                                   now |-> clock', result |-> "running"]]
    /\ UNCHANGED <<db, txn, checkedOut, tree, fr, hist, sv, sp, fn>>

\* second statement: UPDATE and return False when the SELECT found the
\* row; INSERT and return True otherwise, where an INSERT of a key that is
\* in the table by now violates the primary key and the exception leaves
\* the function
UpsertWrite(c) ==
    /\ zr[c].pc = "selected"
    /\ LET k == zr[c].key
           values == FileRow(k, 0, zr[c].now, "zip")
       IN  IF zr[c].existing
           THEN /\ db' = [db EXCEPT
                            ![k] = UpsertResource_Update(db[k], values)]
                /\ zr' = [zr EXCEPT ![c].pc = "idle",
                                    ![c].result = "False"]
           ELSE IF k \in DOMAIN db
           THEN /\ db' = db
                /\ zr' = [zr EXCEPT ![c].pc = "idle",
                                    ![c].result = "IntegrityError"]
           ELSE /\ db' = [j \in DOMAIN db \cup {k} |->
                            IF j = k THEN UpsertResource_Insert(values)
                            ELSE db[j]]
                /\ zr' = [zr EXCEPT ![c].pc = "idle",
                                    ![c].result = "True"]
    /\ UNCHANGED <<txn, checkedOut, clock, tree, fr, hist, sv, sp, fn>>

InitUpserts ==
    /\ db = EmptyTable
    /\ txn = EmptyTable
    /\ checkedOut = 0
    /\ clock = 0
    /\ tree = [k \in Keys |-> Absent]
    /\ fr = FrIdle("none")
    /\ zr = [c \in Callers |-> CallerIdle]
    /\ hist = HistInit
    /\ sv = SvIdle
    /\ sp = SpIdle
    /\ fn = FnIdle

NextUpserts ==
    \/ \E c \in Callers : UpsertSelect(c)
    \/ \E c \in Callers : UpsertWrite(c)

SpecUpserts == InitUpserts /\ [][NextUpserts]_vars

\* both callers have finished a call for one key that was not in the table
\* when either call began
BothCalledForNewKey ==
    /\ \A c \in Callers : zr[c].pc = "idle" /\ zr[c].result # "none"
    /\ zr["a"].key = zr["b"].key
    /\ \A c \in Callers : ~zr[c].existing

\* C22: two calls of upsert_resource for one key that does not exist yet,
\* interleaved in any order, both complete without raising, leave exactly
\* one row with the key, and one returns True and the other False.
C22_ConcurrentUpsert ==
    BothCalledForNewKey =>
        /\ zr["a"].key \in DOMAIN db
        /\ {zr[c].result : c \in Callers} = {"True", "False"}


\* =========================================================================
\* The connection pool: get_connection, return_connection and their callers
\* (specification SpecPool)
\* =========================================================================
MaxPoolCalls == 3   \* calls of the observed thread in one behaviour
MaxWaitTicks == 20  \* max_wait = 2.0, in units of the 0.1 s sleep
SleepTicks == 1     \* time.sleep(0.1)

\* _pool_stats, and the connections other threads hold at the moment
PoolStats0(others) ==
    [borrows |-> 0, returns |-> 0, discards |-> 0, exhaustions |-> 0,
     others |-> others, calls |-> 0]

\* the observed thread inside get_connection, start = time.time() taken
PoolCall0(op) ==
    [op |-> op, pc |-> "get_connection", elapsed |-> 0,
     exception |-> "none"]

\* a get_connection that sleeps and tries again whatever time has passed
get_connection_NoDeadline(call, used, stats, slept) ==
    IF used < MaxConn
    THEN [call |-> [call EXCEPT !.pc = "holding"], used |-> used + 1,
          stats |-> [stats EXCEPT !.borrows = @ + 1]]
    ELSE [call |-> [call EXCEPT !.elapsed = @ + slept],
          used |-> used, stats |-> stats]

\* one pass of "while True" in get_connection: pool.getconn() hands out a
\* connection unless maxconn are in use (PoolError); then the time since
\* start decides between RuntimeError and a sleep, which takes slept ticks
get_connection(call, used, stats, slept) ==
    IF used < MaxConn
    THEN [call |-> [call EXCEPT !.pc = "holding"], used |-> used + 1,
          stats |-> [stats EXCEPT !.borrows = @ + 1]]
    ELSE IF call.elapsed >= MaxWaitTicks
    THEN [call |-> [call EXCEPT !.pc = "raised",
                                !.exception = "RuntimeError"],
          used |-> used,
          stats |-> [stats EXCEPT !.exhaustions = @ + 1]]
    ELSE [call |-> [call EXCEPT !.elapsed = @ + slept],
          used |-> used, stats |-> stats]

\* return_connection(conn, healthy): putconn, or putconn(close=True)
return_connection(stats, healthy) ==
    IF healthy THEN [stats EXCEPT !.returns = @ + 1]
    ELSE [stats EXCEPT !.discards = @ + 1]

\* the callers of get_connection: execute() without conn, transaction(),
\* Phase 3 of save_scrub_batch_view, get_total_active_resources
PoolCallers ==
    {"execute", "transaction", "save_scrub_batch_view",
     "get_total_active_resources"}

\* how the work on the borrowed connection ends
Outcomes == {"ok", "OperationalError", "IntegrityError"}

\* the observed thread calls one of the callers, which calls get_connection
PoolCall ==
    /\ fn = FnIdle
    /\ sp.calls < MaxPoolCalls
    /\ \E op \in PoolCallers : fn' = PoolCall0(op)
    /\ sp' = [sp EXCEPT !.calls = @ + 1]
    /\ UNCHANGED <<db, txn, checkedOut, clock, tree, fr, zr, hist, sv>>

\* pool.getconn() and what follows it; the sleep lasts 0.1 s or, under
\* load, longer
PoolGetConn ==
    /\ fn # FnIdle
    /\ fn.pc = "get_connection"
    /\ \E slept \in {SleepTicks, SleepTicks + 1} :
          LET got == get_connection(fn, checkedOut, sp, slept) IN
          /\ fn' = got.call
          /\ checkedOut' = got.used
          /\ sp' = got.stats
    /\ UNCHANGED <<db, txn, clock, tree, fr, zr, hist, sv>>

\* the caller is done with the connection.  execute() and transaction()
\* reach return_connection in their finally clause on every path, healthy
\* unless a connection-level error (execute) or any exception (transaction)
\* occurred.  save_scrub_batch_view commits or reports the error and
\* redirects; get_total_active_resources closes the connection or lets the
\* exception out; neither calls return_connection.
PoolFinish ==
    /\ fn # FnIdle
    /\ fn.pc = "holding"
    /\ \E outcome \in Outcomes :
          /\ fn' = [fn EXCEPT !.pc = "done",
                      !.exception =
                         IF outcome = "ok" \/ fn.op = "save_scrub_batch_view"
                         THEN "none" ELSE outcome]
          /\ IF fn.op = "execute"
             THEN /\ checkedOut' = checkedOut - 1
                  /\ sp' = return_connection(sp,
                                             outcome # "OperationalError")
             ELSE IF fn.op = "transaction"
             THEN /\ checkedOut' = checkedOut - 1
                  /\ sp' = return_connection(sp, outcome = "ok")
             ELSE /\ checkedOut' = checkedOut
                  /\ sp' = sp
    /\ UNCHANGED <<db, txn, clock, tree, fr, zr, hist, sv>>

\* the call of the observed thread is over
PoolReturn ==
    /\ fn # FnIdle
    /\ fn.pc \in {"done", "raised"}
    /\ fn' = FnIdle
    /\ UNCHANGED <<db, txn, checkedOut, clock, tree, fr, zr, hist, sv, sp>>

\* another thread finishes its execute() and returns its connection
OtherReturn ==
    /\ sp.others > 0
    /\ sp' = [return_connection(sp, TRUE) EXCEPT !.others = @ - 1]
    /\ checkedOut' = checkedOut - 1
    /\ UNCHANGED <<db, txn, clock, tree, fr, zr, hist, sv, fn>>

\* a pool of which other threads hold none, all but one or all connections
InitPool ==
    /\ db = EmptyTable
    /\ txn = EmptyTable
    /\ checkedOut \in {0, MaxConn - 1, MaxConn}
    /\ clock = 0
    /\ tree = [k \in Keys |-> Absent]
    /\ fr = FrIdle("none")
    /\ zr = ZrIdle("none")
    /\ hist = HistInit
    /\ sv = SvIdle
    /\ sp = PoolStats0(checkedOut)
    /\ fn = FnIdle

NextPool ==
    \/ PoolCall
    \/ PoolGetConn
    \/ PoolFinish
    \/ PoolReturn
    \/ OtherReturn

\* a thread inside get_connection is scheduled again after its sleep
SpecPool == InitPool /\ [][NextPool]_vars /\ WF_vars(PoolGetConn)

\* C23: every borrowed connection is given back exactly once on every
\* path, so that once all requests are finished no connection is checked
\* out.
C23_NoLeak ==
    (fn = FnIdle /\ sp.others = 0) => checkedOut = 0

\* the step is a pass of get_connection's loop in the observed thread
IsGetConnStep == fn # FnIdle /\ fn.pc = "get_connection" /\ fn' # fn

\* what such a step does, by the state of the pool and the time waited
C24_Step ==
    IsGetConnStep =>
        IF checkedOut < MaxConn
        THEN /\ fn'.pc = "holding"
             /\ checkedOut' = checkedOut + 1
             /\ sp'.borrows = sp.borrows + 1
             /\ sp'.exhaustions = sp.exhaustions
        ELSE IF fn.elapsed >= 20
        THEN /\ fn'.pc = "raised" /\ fn'.exception = "RuntimeError"
             /\ sp'.exhaustions = sp.exhaustions + 1
             /\ sp'.borrows = sp.borrows
             /\ checkedOut' = checkedOut
        ELSE /\ fn'.pc = "get_connection"
             /\ fn'.elapsed >= fn.elapsed + 1
             /\ fn'.elapsed <= fn.elapsed + 2
             /\ sp' = sp /\ checkedOut' = checkedOut

\* C24: get_connection never waits indefinitely: while the pool is
\* exhausted it tries again about every 0.1 s; once 2 s have passed
\* without a connection it raises RuntimeError and adds one to
\* exhaustions; a successful call adds exactly one to borrows and returns
\* a connection.
C24_BoundedWait ==
    /\ [][C24_Step]_vars
    /\ [](fn # FnIdle => fn.elapsed <= 20 + 2)
    /\ (fn # FnIdle /\ fn.pc = "get_connection")
          ~> (fn # FnIdle /\ fn.pc \in {"holding", "raised"})

\* the pool stayed exhausted for 2 s and the call raised
C24_Witness ==
    /\ fn # FnIdle /\ fn.pc = "raised" /\ fn.exception = "RuntimeError"
    /\ fn.elapsed >= 20
    /\ sp.exhaustions = 1 /\ sp.borrows = 0
    /\ checkedOut = MaxConn


\* =========================================================================
\* db.py: adapt_query (specification SpecAdapt)
\* =========================================================================
MaxSqlLen == 5

\* the flags of adapt_query at the top of its loop
Flags0 ==
    [in_single |-> FALSE, in_double |-> FALSE, in_line_comment |-> FALSE,
     in_block_comment |-> FALSE]

\* sql[i + 1] == ch guarded by i + 1 < n, for the 1-based position i
NextIs(sql, i, ch) == i + 1 <= Len(sql) /\ sql[i + 1] = ch

\* the while loop of adapt_query from position i on: the characters it
\* appends to out
RECURSIVE AdaptFrom(_, _, _)
AdaptFrom(sql, i, f) ==
    IF i > Len(sql) THEN <<>>
    ELSE
    LET ch == sql[i] IN
    IF f.in_line_comment
    THEN <<ch>> \o AdaptFrom(sql, i + 1,
                     IF ch = "\n" THEN [f EXCEPT !.in_line_comment = FALSE]
                     ELSE f)
    ELSE IF f.in_block_comment
    THEN IF ch = "*" /\ NextIs(sql, i, "/")
         THEN <<ch, "/">> \o AdaptFrom(sql, i + 2,
                                [f EXCEPT !.in_block_comment = FALSE])
         ELSE <<ch>> \o AdaptFrom(sql, i + 1, f)
    ELSE IF ~f.in_single /\ ~f.in_double /\ ch = "-" /\ NextIs(sql, i, "-")
    THEN <<ch, "-">> \o AdaptFrom(sql, i + 2,
                           [f EXCEPT !.in_line_comment = TRUE])
    ELSE IF ~f.in_single /\ ~f.in_double /\ ch = "/" /\ NextIs(sql, i, "*")
    THEN <<ch, "*">> \o AdaptFrom(sql, i + 2,
                           [f EXCEPT !.in_block_comment = TRUE])
    ELSE IF ch = "'" /\ ~f.in_double
    THEN IF f.in_single
         THEN IF NextIs(sql, i, "'")
              THEN <<ch, "'">> \o AdaptFrom(sql, i + 2, f)
              ELSE <<ch>> \o AdaptFrom(sql, i + 1,
                                [f EXCEPT !.in_single = FALSE])
         ELSE <<ch>> \o AdaptFrom(sql, i + 1, [f EXCEPT !.in_single = TRUE])
    ELSE IF ch = "\"" /\ ~f.in_single
    THEN IF f.in_double
         THEN IF NextIs(sql, i, "\"")
              THEN <<ch, "\"">> \o AdaptFrom(sql, i + 2, f)
              ELSE <<ch>> \o AdaptFrom(sql, i + 1,
                                [f EXCEPT !.in_double = FALSE])
         ELSE <<ch>> \o AdaptFrom(sql, i + 1, [f EXCEPT !.in_double = TRUE])
    ELSE IF ch = "?" /\ ~f.in_single /\ ~f.in_double
    THEN <<"%", "s">> \o AdaptFrom(sql, i + 1, f)
    ELSE <<ch>> \o AdaptFrom(sql, i + 1, f)

\* every '?' of s written as %s
RECURSIVE EveryMark(_)
EveryMark(s) ==
    IF s = <<>> THEN <<>>
    ELSE (IF Head(s) = "?" THEN <<"%", "s">> ELSE <<Head(s)>>)
         \o EveryMark(Tail(s))

\* a conversion that replaces every '?'
adapt_query_EveryMark(sql) ==
    IF ~Truthy(sql) THEN sql ELSE EveryMark(sql)

\* adapt_query(sql): "".join(out), or sql itself when it is None or empty
adapt_query(sql) ==
    IF ~Truthy(sql) THEN sql ELSE AdaptFrom(sql, 1, Flags0)

\* the characters a query is written with, and the queries
SqlAlphabet == {"?", "'", "\"", "-", "/", "*", "\n", "a"}
Queries == {None} \cup UNION {[1..n -> SqlAlphabet] : n \in 0..MaxSqlLen}

\* execute() calls adapt_query(sql)
CallAdaptQuery ==
    /\ fn = FnIdle
    /\ \E sql \in Queries :
          fn' = [op |-> "adapt_query", sql |-> sql,
                 result |-> adapt_query(sql)]
    /\ UNCHANGED <<db, txn, checkedOut, clock, tree, fr, zr, hist, sv, sp>>

NextAdapt ==
    \/ CallAdaptQuery
    \/ FnReturn

SpecAdapt == InitFn /\ [][NextAdapt]_vars

\* the end of the quoted text that opens at s[1] with the quote q, looked
\* for from position j on: the first q that is not one of a doubled pair,
\* or the end of s
RECURSIVE QuoteEnd(_, _, _)
QuoteEnd(s, j, q) ==
    IF j > Len(s) THEN Len(s)
    ELSE IF s[j] # q THEN QuoteEnd(s, j + 1, q)
    ELSE IF j < Len(s) /\ s[j + 1] = q THEN QuoteEnd(s, j + 2, q)
    ELSE j

\* the length of the lexical element s begins with: a line comment up to
\* its newline, a block comment up to its closing */, a quoted literal or
\* identifier up to its closing quote, or one character
ElementLen(s) ==
    IF Len(s) >= 2 /\ s[1] = "-" /\ s[2] = "-"
    THEN IF \E j \in 3..Len(s) : s[j] = "\n"
         THEN CHOOSE j \in 3..Len(s) :
                 s[j] = "\n" /\ \A h \in 3..(j - 1) : s[h] # "\n"
         ELSE Len(s)
    ELSE IF Len(s) >= 2 /\ s[1] = "/" /\ s[2] = "*"
    THEN IF \E j \in 4..Len(s) : s[j - 1] = "*" /\ s[j] = "/"
         THEN CHOOSE j \in 4..Len(s) :
                 /\ s[j - 1] = "*" /\ s[j] = "/"
                 /\ \A h \in 4..(j - 1) : ~(s[h - 1] = "*" /\ s[h] = "/")
         ELSE Len(s)
    ELSE IF s[1] \in {"'", "\""} THEN QuoteEnd(s, 2, s[1])
    ELSE 1

\* the query with each '?' that is an element of its own written as %s
RECURSIVE Converted(_)
Converted(s) ==
    IF s = <<>> THEN <<>>
    ELSE LET n == ElementLen(s)
             element == SubSeq(s, 1, n)
         IN  (IF element = <<"?">> THEN <<"%", "s">> ELSE element)
             \o Converted(SubSeq(s, n + 1, Len(s)))

\* C25: adapt_query writes %s for a '?' exactly when the '?' lies outside
\* single-quoted literals (with '' as an escaped quote), double-quoted
\* identifiers, -- comments and /* */ comments, copies every other
\* character unchanged and in order, and returns an empty or None query
\* as it is.
C25_AdaptQuery ==
    fn.op = "adapt_query" =>
        fn.result = IF fn.sql = None \/ fn.sql = <<>> THEN fn.sql
                    ELSE Converted(fn.sql)

\* a '?' inside a literal is kept and the one after it converted
C25_Witness ==
    /\ fn.op = "adapt_query"
    /\ fn.sql = <<"'", "?", "'", "?">>
    /\ fn.result = <<"'", "?", "'", "%", "s">>
====
